---- MODULE Spec2Model ----
(***************************************************************************)
(* Model of the mineru-latex-converter scripts.                            *)
(*   lw.py  LaTeXToWordPipeline: run_pipeline and its stages, the          *)
(*          LaTeX -> OMath converters, merge_text_and_formulas and         *)
(*          create_word_document.                                          *)
(*   ln.py  main, MinerUProcessor.process_with_mineru, PipelineTimer.      *)
(* Five specifications share the variables; each leaves the variables of   *)
(* the other parts at their initial value:                                 *)
(*   Spec       one call of lw.py run_pipeline                             *)
(*   SpecMain   one run of ln.py main                                      *)
(*   SpecLatex  the LaTeX converters applied to one input string           *)
(*   SpecMerge  merge_text_and_formulas applied to two block lists         *)
(*   SpecTimer  calls of the methods of one PipelineTimer                  *)
(***************************************************************************)
EXTENDS Integers, Sequences, FiniteSets, TLC

VARIABLES
    \* ---- lw.py run_pipeline ----
    pc,                   \* position in run_pipeline
    stages_run,           \* names of the stages started so far, in order
    raised,               \* name of the stage whose exception reached the except clause, or "none"
    result,               \* return value of run_pipeline: "unset", "None" or "all_paths"
    path_info,            \* TRUE once all_paths.json has been written
    mineru,               \* what run_mineru saw and did
    text_blocks,          \* list returned by extract_text_with_positions
    formula_blocks,       \* list returned by extract_formula_images / convert_with_nougat
    merged_content,       \* list of lines returned by merge_text_and_formulas
    final_word,           \* paragraphs of 06_final_result.docx, "missing" before it is saved
    formula_placeholders, \* self._formula_placeholders
    \* ---- ln.py main ----
    mpc,                  \* position in main
    events,               \* the stage calls main has made so far: [name, ok]
    auto_dir,             \* what process_with_mineru gave main: "unset", "dir", "False", "raise"
    pwm,                  \* what process_with_mineru saw and did
    pdf_path,             \* pdf_path in main: "unset", "supplied", "converted" or "None"
    exit_status,          \* -1 while main runs, then the exit status of the process
    \* ---- lw.py LaTeX converters ----
    tx_pc,                \* "idle", "input", or the converter that has been applied
    tx_latex,             \* the input string, a sequence of characters
    converter,            \* the converter parse_latex_structure handed the input to
    structure_xml,        \* the string returned by parse_latex_structure
    omath_element,        \* the element returned by parse_latex_to_omath
    com_calls,            \* what _build_omath_com added to the OMath object
    \* ---- lw.py merge_text_and_formulas ----
    mg_pc,                \* "idle", "input" or "merged"
    mg_text,              \* the text_blocks argument
    mg_formulas,          \* the formula_blocks argument
    mg_result,            \* the returned lines and the two argument lists after the call
    \* ---- ln.py PipelineTimer ----
    timer,                \* the fields of a PipelineTimer object
    timer_calls           \* the calls made on it so far: [op, stage_name]

lwVars == <<pc, stages_run, raised, result, path_info, mineru,
            text_blocks, formula_blocks, merged_content, final_word,
            formula_placeholders>>

lnVars == <<mpc, events, auto_dir, pwm, pdf_path, exit_status>>

txVars == <<tx_pc, tx_latex, converter, structure_xml, omath_element, com_calls>>

mgVars == <<mg_pc, mg_text, mg_formulas, mg_result>>

tmVars == <<timer, timer_calls>>

vars == <<lwVars, lnVars, txVars, mgVars, tmVars>>

\* the variables each part leaves alone
notLw == <<lnVars, txVars, mgVars, tmVars>>
notLn == <<lwVars, txVars, mgVars, tmVars>>
notTx == <<lwVars, lnVars, mgVars, tmVars>>
notMg == <<lwVars, lnVars, txVars, tmVars>>
notTm == <<lwVars, lnVars, txVars, mgVars>>
notLnTm == <<lwVars, txVars, mgVars>>

\* the converters and the merge have not been given anything
IdleTx ==
    /\ tx_pc = "idle"
    /\ tx_latex = <<>>
    /\ converter = "none"
    /\ structure_xml = <<>>
    /\ omath_element = <<>>
    /\ com_calls = <<>>

IdleMg ==
    /\ mg_pc = "idle"
    /\ mg_text = <<>>
    /\ mg_formulas = <<>>
    /\ mg_result = <<>>

----------------------------------------------------------------------------
(* Bounds *)

MaxPage == 1            \* pages are 0..MaxPage
MaxPipeText == 1        \* text blocks extracted in one pipeline run
MaxPipeFormulas == 2    \* formula blocks extracted in one pipeline run

Pages == 0..MaxPage

----------------------------------------------------------------------------
(* Blocks: TextBlock and FormulaBlock objects.  id is the object identity. *)

\* bbox = (x1, y1, x2, y2) of a block 30 wide and 8 high
Box(x, y) == <<x, y, x + 30, y + 8>>

TextBlock(id, page, x, y, text) ==
    [type |-> "text", id |-> id, page |-> page, bbox |-> Box(x, y),
     text |-> text, latex |-> "n/a", image_path |-> 0]

FormulaBlock(id, page, x, y, latex, image_path) ==
    [type |-> "formula", id |-> id, page |-> page, bbox |-> Box(x, y),
     text |-> "n/a", latex |-> latex, image_path |-> image_path]

\* Python truthiness of a latex value: None and '' are falsy
Truthy(latex) == latex \notin {"None", ""}

----------------------------------------------------------------------------
(* merge_text_and_formulas *)

threshold == 10

Abs(n) == IF n < 0 THEN -n ELSE n

\* sort key (x.page, x.bbox[1], x.bbox[0]), compared as Python compares tuples
SortKeyLess(a, b) ==
    \/ a.page < b.page
    \/ a.page = b.page /\ a.bbox[2] < b.bbox[2]
    \/ a.page = b.page /\ a.bbox[2] = b.bbox[2] /\ a.bbox[1] < b.bbox[1]

\* insert b behind every element that is not greater: a stable insertion
RECURSIVE InsertSorted(_, _)
InsertSorted(s, b) ==
    IF s = <<>> THEN <<b>>
    ELSE IF SortKeyLess(b, Head(s)) THEN <<b>> \o s
    ELSE <<Head(s)>> \o InsertSorted(Tail(s), b)

\* list.sort is stable
RECURSIVE StableSort(_)
StableSort(s) ==
    IF s = <<>> THEN <<>>
    ELSE InsertSorted(StableSort(SubSeq(s, 1, Len(s) - 1)), s[Len(s)])

\* a variant of the grouping step that keeps a block in the line when it is
\* exactly threshold away from the line's first block
GroupStep_inclusive(st, block) ==
    IF st.current_page # <<block.page>>
    THEN [merged_blocks |-> IF st.current_line # <<>>
                            THEN Append(st.merged_blocks, st.current_line)
                            ELSE st.merged_blocks,
          current_line |-> <<block>>,
          current_y |-> <<block.bbox[2]>>,
          current_page |-> <<block.page>>]
    ELSE IF st.current_y = <<>> \/ Abs(block.bbox[2] - st.current_y[1]) <= threshold
    THEN [st EXCEPT !.current_line = Append(@, block),
                    !.current_y = IF @ = <<>> THEN <<block.bbox[2]>> ELSE @]
    ELSE [merged_blocks |-> IF st.current_line # <<>>
                            THEN Append(st.merged_blocks, st.current_line)
                            ELSE st.merged_blocks,
          current_line |-> <<block>>,
          current_y |-> <<block.bbox[2]>>,
          current_page |-> st.current_page]

\* the grouping loop: st = [merged_blocks, current_line, current_y, current_page]
GroupStep(st, block) ==
    IF st.current_page # <<block.page>>
    THEN [merged_blocks |-> IF st.current_line # <<>>
                            THEN Append(st.merged_blocks, st.current_line)
                            ELSE st.merged_blocks,
          current_line |-> <<block>>,
          current_y |-> <<block.bbox[2]>>,
          current_page |-> <<block.page>>]
    ELSE IF st.current_y = <<>> \/ Abs(block.bbox[2] - st.current_y[1]) < threshold
    THEN [st EXCEPT !.current_line = Append(@, block),
                    !.current_y = IF @ = <<>> THEN <<block.bbox[2]>> ELSE @]
    ELSE [merged_blocks |-> IF st.current_line # <<>>
                            THEN Append(st.merged_blocks, st.current_line)
                            ELSE st.merged_blocks,
          current_line |-> <<block>>,
          current_y |-> <<block.bbox[2]>>,
          current_page |-> st.current_page]

RECURSIVE GroupLoop(_, _)
GroupLoop(st, blocks) ==
    IF blocks = <<>> THEN st
    ELSE GroupLoop(GroupStep(st, Head(blocks)), Tail(blocks))

\* the trailing "if current_line: merged_blocks.append(current_line)"
FlushLastLine(st) ==
    IF st.current_line # <<>>
    THEN Append(st.merged_blocks, st.current_line)
    ELSE st.merged_blocks

\* a variant that returns merged_blocks without the line still being filled
merge_text_and_formulas_unflushed(tb, fb) ==
    [lines |-> GroupLoop([merged_blocks |-> <<>>, current_line |-> <<>>,
                          current_y |-> <<>>, current_page |-> <<>>],
                         StableSort(tb \o fb)).merged_blocks,
     text_blocks |-> tb,
     formula_blocks |-> fb]

\* None is the empty tuple, a value v is <<v>>.  The result records the
\* returned lines and the two argument lists as the call leaves them:
\* all_blocks = text_blocks + formula_blocks is a new list, and only it is sorted.
merge_text_and_formulas(tb, fb) ==
    [lines |-> FlushLastLine(GroupLoop([merged_blocks |-> <<>>, current_line |-> <<>>,
                                        current_y |-> <<>>, current_page |-> <<>>],
                                       StableSort(tb \o fb))),
     text_blocks |-> tb,
     formula_blocks |-> fb]

----------------------------------------------------------------------------
(* create_word_document *)

\* placeholder = f"[FORMULA_{block.page}_{i}_{len(line_blocks)}]"
Placeholder(block, i, line_blocks) == <<block.page, i, Len(line_blocks)>>

\* int(gap / 5) for gap > 10
SpaceCount(gap) == gap \div 5

\* the runs appended for line_blocks[i] (i is the Python index, 0-based)
BlockRuns(line_blocks, i) ==
    LET block == line_blocks[i + 1]
        gap == IF i > 0 THEN block.bbox[1] - line_blocks[i].bbox[3] ELSE 0
        gapRuns == IF i > 0 /\ gap > 10
                   THEN <<[kind |-> "spaces", val |-> <<SpaceCount(gap)>>]>>
                   ELSE <<>>
    IN  IF block.type = "text"
        THEN gapRuns \o <<[kind |-> "text", val |-> <<block.text>>],
                          [kind |-> "spaces", val |-> <<1>>]>>
        ELSE IF block.type = "formula" /\ Truthy(block.latex)
        THEN gapRuns \o <<[kind |-> "placeholder",
                           val |-> Placeholder(block, i, line_blocks)],
                          [kind |-> "spaces", val |-> <<1>>]>>
        ELSE gapRuns

RECURSIVE LineRuns(_, _)
LineRuns(line_blocks, i) ==
    IF i >= Len(line_blocks) THEN <<>>
    ELSE BlockRuns(line_blocks, i) \o LineRuns(line_blocks, i + 1)

\* self._formula_placeholders[placeholder] = block.latex, for the blocks of one line
RECURSIVE LinePlaceholders(_, _, _)
LinePlaceholders(ph, line_blocks, i) ==
    IF i >= Len(line_blocks) THEN ph
    ELSE LET block == line_blocks[i + 1]
             key == Placeholder(block, i, line_blocks)
         IN  IF block.type = "formula" /\ Truthy(block.latex)
             THEN LinePlaceholders([k \in DOMAIN ph \cup {key} |->
                                       IF k = key THEN block.latex ELSE ph[k]],
                                   line_blocks, i + 1)
             ELSE LinePlaceholders(ph, line_blocks, i + 1)

\* st = [paragraphs, placeholders, current_page]; one iteration of the loop over lines
WordLineStep(st, line_blocks) ==
    IF line_blocks = <<>> THEN st
    ELSE LET page == line_blocks[1].page
             brk == IF page # st.current_page /\ st.current_page # -1
                    THEN <<(<<[kind |-> "page_break", val |-> <<>>]>>)>>
                    ELSE <<>>
         IN  [paragraphs |-> st.paragraphs \o brk \o <<LineRuns(line_blocks, 0)>>,
              placeholders |-> LinePlaceholders(st.placeholders, line_blocks, 0),
              current_page |-> page]

RECURSIVE WordLoop(_, _)
WordLoop(st, lines) ==
    IF lines = <<>> THEN st
    ELSE WordLoop(WordLineStep(st, Head(lines)), Tail(lines))

\* the saved document and the placeholder table after the call
create_word_document(lines, placeholders) ==
    WordLoop([paragraphs |-> <<>>, placeholders |-> placeholders, current_page |-> -1],
             lines)

EmptyDict == [k \in {} |-> ""]

----------------------------------------------------------------------------
(* run_mineru *)

ExitCodes == {0, 1}

\* a variant that starts the second command whatever the first returned
MineruLaunches_both(rc1, rc2) ==
    <<[cmd |-> "magic-pdf", returncode |-> rc1],
      [cmd |-> "python -m magic_pdf", returncode |-> rc2]>>

\* the subprocess.run calls: "magic-pdf" first, "python -m magic_pdf" only
\* when the first returncode is not 0
MineruLaunches(rc1, rc2) ==
    IF rc1 # 0
    THEN <<[cmd |-> "magic-pdf", returncode |-> rc1],
           [cmd |-> "python -m magic_pdf", returncode |-> rc2]>>
    ELSE <<[cmd |-> "magic-pdf", returncode |-> rc1]>>

\* the search for the result directory; env says what exists on disk after
\* the launches: <output>/<stem>/auto, some other <output>/*/auto, the cached
\* directory under base_dir, and whether shutil.copytree succeeds
LocateMineruResult(env) ==
    IF env.stem_auto THEN "stem_auto"
    ELSE IF env.other_auto THEN "glob_auto"
    ELSE IF env.cached
         THEN IF env.copy_ok THEN "cached_copy" ELSE "raise"
         ELSE "raise"

\* copy_ok is drawn only where shutil.copytree is called
MineruEnvs ==
    { env \in [stem_auto : BOOLEAN, other_auto : BOOLEAN,
                cached : BOOLEAN, copy_ok : BOOLEAN] :
        env.copy_ok => (~env.stem_auto /\ ~env.other_auto /\ env.cached) }

run_mineru(rc1, rc2, env) ==
    [launches |-> MineruLaunches(rc1, rc2), env |-> env,
     ret |-> LocateMineruResult(env)]

NoMineru == [launches |-> <<>>,
             env |-> [stem_auto |-> FALSE, other_auto |-> FALSE,
                      cached |-> FALSE, copy_ok |-> FALSE],
             ret |-> "unset"]

----------------------------------------------------------------------------
(* convert_with_nougat *)

\* the LaTeX nougat reads from the image of a formula block
OcrLatex(image_path) == "ocr" \o ToString(image_path)

\* contents of word_output_20250705_171335/05_nougat_results/nougat_results.json
ExistingResults == {<<>>, <<"old1">>, <<"", "old2">>}

\* the branch taken when existing_results_path exists
MapExistingResults(fb, existing_results) ==
    [idx \in 1..Len(fb) |->
        IF idx <= Len(existing_results)
        THEN [fb[idx] EXCEPT !.latex = existing_results[idx]]
        ELSE [fb[idx] EXCEPT !.latex = ""]]

\* the nougat loops (OptimizedNougat or the fallback): failed is the set of
\* images whose conversion raises or yields nothing
RunNougat(fb, failed) ==
    [idx \in 1..Len(fb) |->
        IF fb[idx].image_path \in failed
        THEN [fb[idx] EXCEPT !.latex = ""]
        ELSE [fb[idx] EXCEPT !.latex = OcrLatex(fb[idx].image_path)]]

\* env = [existing, existing_results, importable, failed]
convert_with_nougat(fb, env) ==
    IF env.existing THEN [raised |-> FALSE, blocks |-> MapExistingResults(fb, env.existing_results)]
    ELSE IF env.importable THEN [raised |-> FALSE, blocks |-> RunNougat(fb, env.failed)]
    ELSE [raised |-> TRUE, blocks |-> fb]

NougatEnvs(fb) ==
    [existing : {TRUE}, existing_results : ExistingResults,
     importable : {TRUE}, failed : {{}}]
    \cup [existing : {FALSE}, existing_results : {<<>>},
          importable : {TRUE}, failed : SUBSET {fb[i].image_path : i \in 1..Len(fb)}]
    \cup [existing : {FALSE}, existing_results : {<<>>},
          importable : {FALSE}, failed : {{}}]

----------------------------------------------------------------------------
(* run_pipeline *)

\* the layouts of the documents a pipeline run is tried on: text spans at the
\* left margin on the first line of a page, formulas to their right on the
\* first or the second line
PipeTextGeom == Pages \X {0} \X {0}
PipeFormulaGeom == Pages \X {50} \X {0, 20}

PageOrdered(g) == \A i, j \in DOMAIN g : i < j => g[i][1] <= g[j][1]

\* what extract_text_with_positions can return: spans in page order
PipeTextLists ==
    UNION { { [i \in 1..n |-> TextBlock(i, g[i][1], g[i][2], g[i][3], "t" \o ToString(i))]
              : g \in { h \in [1..n -> PipeTextGeom] : PageOrdered(h) } }
            : n \in 0..MaxPipeText }

\* what extract_formula_images can return: latex None, one image per block
PipeFormulaLists ==
    UNION { { [i \in 1..n |-> FormulaBlock(100 + i, g[i][1], g[i][2], g[i][3], "None", i)]
              : g \in { h \in [1..n -> PipeFormulaGeom] : PageOrdered(h) } }
            : n \in 0..MaxPipeFormulas }

StageOrder == <<"extract_text_with_positions", "remove_korean_text", "run_mineru",
                "extract_formula_images", "convert_with_nougat",
                "merge_text_and_formulas", "create_word_document", "generate_html">>

\* the statement that follows a stage in the try block
NextPc(p) ==
    CASE p = "s1" -> "s2" [] p = "s2" -> "s3" [] p = "s3" -> "s4"
      [] p = "s4" -> "s5" [] p = "s5" -> "s6" [] p = "s6" -> "s7"
      [] p = "s7" -> "write" [] OTHER -> "done"

\* a variant that prints the error and goes on with the next stage
AfterStage_continue(p, ok) == NextPc(p)

\* try: ... except Exception: return None
AfterStage(p, ok) == IF ok THEN NextPc(p) ELSE "done"

----------------------------------------------------------------------------
(* lw.py: strings                                                          *)
(* A Python str is a sequence of one-character strings.  Two kinds of      *)
(* longer element stand for a run of characters that no pattern of the     *)
(* converters can match a part of: the text of a tag between "<" and ">",  *)
(* and the whitespace between two tags of a template.  A character outside *)
(* ASCII is written by its code point, "U+2211" for the summation sign.    *)

Letters == {"a", "b", "c", "d", "e", "f", "g", "h", "i", "j", "k", "l", "m",
            "n", "o", "p", "q", "r", "s", "t", "u", "v", "w", "x", "y", "z",
            "A", "B", "C", "D", "E", "F", "G", "H", "I", "J", "K", "L", "M",
            "N", "O", "P", "Q", "R", "S", "T", "U", "V", "W", "X", "Y", "Z"}

Digits == {"0", "1", "2", "3", "4", "5", "6", "7", "8", "9"}

\* the letters outside ASCII that the replacement tables produce
GreekLetters == {"U+03B1", "U+03B2", "U+03B3", "U+03B4", "U+03BB", "U+03BC",
                 "U+03C3", "U+03A9"}

\* str.isalpha for one character
isalpha(c) == c \in Letters \cup GreekLetters

\* what str.strip removes: blanks, tabs, newlines and the whitespace of a template
Whitespace ==
    {" ", "\t", "\n", "\n        ", "\n            ", "\n                ",
     "\n                    ", "\n                        ",
     "\n                            "}

FRAC_OPEN == <<"\\", "f", "r", "a", "c", "{">>
BEGIN_ARRAY == <<"\\", "b", "e", "g", "i", "n", "{", "a", "r", "r", "a", "y", "}">>
END_ARRAY == <<"\\", "e", "n", "d", "{", "a", "r", "r", "a", "y", "}">>
SUM_OPEN == <<"\\", "s", "u", "m", "_", "{">>

\* s[i:].startswith(pat)
StartsWithAt(s, i, pat) ==
    /\ i >= 1
    /\ i + Len(pat) - 1 <= Len(s)
    /\ \A k \in 1..Len(pat) : s[i + k - 1] = pat[k]

\* pat in s
Contains(s, pat) == \E i \in 1..(Len(s) - Len(pat) + 1) : StartsWithAt(s, i, pat)

Min(S) == CHOOSE x \in S : \A y \in S : x <= y

\* s.find(pat, i): the first occurrence of pat at or after i, 0 when there is none
Find(s, pat, i) ==
    LET at == {j \in i..(Len(s) - Len(pat) + 1) : StartsWithAt(s, j, pat)}
    IN IF at = {} THEN 0 ELSE Min(at)

\* s.replace(old, new) for a longer old: the occurrences of old from left to
\* right, not overlapping
RECURSIVE ReplaceFrom(_, _, _, _)
ReplaceFrom(s, i, old, new) ==
    LET p == Find(s, old, i)
    IN IF p = 0 THEN SubSeq(s, i, Len(s))
       ELSE SubSeq(s, i, p - 1) \o new \o ReplaceFrom(s, p + Len(old), old, new)

\* s.replace(c, new) for one character c, on s[lo..hi]: occurrences of one
\* character cannot overlap, so the two halves are replaced independently
RECURSIVE ReplaceChar(_, _, _, _, _)
ReplaceChar(s, lo, hi, c, new) ==
    IF lo > hi THEN <<>>
    ELSE IF lo = hi THEN (IF s[lo] = c THEN new ELSE <<s[lo]>>)
    ELSE ReplaceChar(s, lo, (lo + hi) \div 2, c, new)
         \o ReplaceChar(s, (lo + hi) \div 2 + 1, hi, c, new)

Replace(s, old, new) ==
    IF ~Contains(s, old) THEN s
    ELSE IF Len(old) = 1 THEN ReplaceChar(s, 1, Len(s), old[1], new)
    ELSE ReplaceFrom(s, 1, old, new)

\* s.split(sep): the pieces between the occurrences of sep
RECURSIVE SplitFrom(_, _, _)
SplitFrom(s, i, sep) ==
    LET p == Find(s, sep, i)
    IN IF p = 0 THEN <<SubSeq(s, i, Len(s))>>
       ELSE <<SubSeq(s, i, p - 1)>> \o SplitFrom(s, p + Len(sep), sep)

Split(s, sep) == SplitFrom(s, 1, sep)

\* s.strip(): from the first to the last character that is not whitespace
Strip(s) ==
    LET keep == {i \in 1..Len(s) : s[i] \notin Whitespace}
    IN IF keep = {} THEN <<>>
       ELSE SubSeq(s, Min(keep), CHOOSE i \in keep : \A j \in keep : j <= i)

\* str(n) for a small count
ToChars(n) == IF n < 10 THEN <<ToString(n)>> ELSE <<ToString(n \div 10), ToString(n % 10)>>

\* Two outcomes of a call that are not a string: the call does not return,
\* and the call leaves with an exception.
Diverges == <<"<does not return>">>
Raises == <<"<raises>">>

Failed(x) == x = Diverges \/ x = Raises

\* the concatenation of parts that are evaluated from left to right: the
\* first part that does not return or raises decides the outcome
RECURSIVE Join(_)
Join(parts) ==
    IF parts = <<>> THEN <<>>
    ELSE IF Failed(Head(parts)) THEN Head(parts)
    ELSE LET rest == Join(Tail(parts))
         IN IF Failed(rest) THEN rest ELSE Head(parts) \o rest

----------------------------------------------------------------------------
(* lw.py: process_latex_commands and convert_text_to_omath *)

process_latex_commands_replacements ==
    <<
    <<<<"\\", "m", "a", "t", "h", "r", "m">>, <<>>>>,
    <<<<"\\", "m", "a", "t", "h", "b", "b">>, <<>>>>,
    <<<<"\\", "m", "a", "t", "h", "b", "f">>, <<>>>>,
    <<<<"\\", "b", "o", "l", "d", "m", "a", "t", "h">>, <<>>>>,
    <<<<"\\", "o", "p", "e", "r", "a", "t", "o", "r", "n", "a", "m", "e">>, <<>>>>,
    <<<<"\\", "d", "i", "s", "p", "l", "a", "y", "s", "t", "y", "l", "e">>, <<>>>>,
    <<<<"\\", "s", "c", "r", "i", "p", "t", "s", "i", "z", "e">>, <<>>>>,
    <<<<"\\", "t", "i", "n", "y">>, <<>>>>,
    <<<<"\\", "l", "a", "r", "g", "e">>, <<>>>>,
    <<<<"\\", "L", "a", "r", "g", "e">>, <<>>>>,
    <<<<"\\", "c", "d", "o", "t">>, <<"U+00B7">>>>,
    <<<<"\\", "t", "i", "m", "e", "s">>, <<"U+00D7">>>>,
    <<<<"\\", "p", "m">>, <<"U+00B1">>>>,
    <<<<"\\", "s", "u", "m">>, <<"U+2211">>>>,
    <<<<"\\", "i", "n", "t">>, <<"U+222B">>>>,
    <<<<"\\", "i", "n", "f", "t", "y">>, <<"U+221E">>>>,
    <<<<"\\", "a", "l", "p", "h", "a">>, <<"U+03B1">>>>,
    <<<<"\\", "b", "e", "t", "a">>, <<"U+03B2">>>>,
    <<<<"\\", "g", "a", "m", "m", "a">>, <<"U+03B3">>>>,
    <<<<"\\", "d", "e", "l", "t", "a">>, <<"U+03B4">>>>,
    <<<<"\\", "l", "a", "m", "b", "d", "a">>, <<"U+03BB">>>>,
    <<<<"\\", "m", "u">>, <<"U+03BC">>>>,
    <<<<"\\", "s", "i", "g", "m", "a">>, <<"U+03C3">>>>,
    <<<<"\\", "O", "m", "e", "g", "a">>, <<"U+03A9">>>>,
    <<<<"\\", "l", "e", "q">>, <<"U+2264">>>>,
    <<<<"\\", "g", "e", "q">>, <<"U+2265">>>>,
    <<<<"\\", "n", "e", "q">>, <<"U+2260">>>>,
    <<<<"\\", "a", "p", "p", "r", "o", "x">>, <<"U+2248">>>>,
    <<<<"\\", "l", "e", "f", "t", "[">>, <<"[">>>>,
    <<<<"\\", "r", "i", "g", "h", "t", "]">>, <<"]">>>>,
    <<<<"\\", "l", "e", "f", "t", "(">>, <<"(">>>>,
    <<<<"\\", "r", "i", "g", "h", "t", ")">>, <<")">>>>,
    <<<<"\\", "l", "e", "f", "t", "\\", "{">>, <<"{">>>>,
    <<<<"\\", "r", "i", "g", "h", "t", "\\", "}">>, <<"}">>>>,
    <<<<"\\", "q", "q", "u", "a", "d">>, <<" ", " ", " ", " ">>>>,
    <<<<"\\", "q", "u", "a", "d">>, <<" ", " ">>>>,
    <<<<"\\", ",">>, <<" ">>>>,
    <<<<"\\", ";">>, <<" ">>>>,
    <<<<"\\", "!">>, <<>>>>,
    <<<<"\\", "\\">>, <<" ">>>>
    >>

\* for old, new in replacements.items(): text = text.replace(old, new)
RECURSIVE ReplaceAll(_, _, _)
ReplaceAll(text, replacements, k) ==
    IF k > Len(replacements) \/ Len(text) = 0 THEN text
    ELSE ReplaceAll(Replace(text, replacements[k][1], replacements[k][2]), replacements, k + 1)

process_latex_commands(text) ==
    LET replaced == Replace(ReplaceAll(text, process_latex_commands_replacements, 1),
                            <<"~">>, <<" ">>)
    IN IF Len(replaced) > 1 /\ replaced[1] = "\\" /\ isalpha(replaced[2])
       THEN Tail(replaced)
       ELSE replaced

\* text.replace('&', '&amp;').replace('<', '&lt;').replace('>', '&gt;')
EscapeXml(text) ==
    Replace(Replace(Replace(text, <<"&">>, <<"&", "a", "m", "p", ";">>),
                    <<"<">>, <<"&", "l", "t", ";">>),
            <<">">>, <<"&", "g", "t", ";">>)

convert_text_to_omath(text) ==
    LET escaped == EscapeXml(process_latex_commands(text))
    IN IF Strip(escaped) = <<>>
       THEN <<"<", "m:r", ">", "<", "m:t", ">", " ", "<", "/m:t", ">", "<", "/m:r", ">">>
       ELSE <<"<", "m:r", ">", "<", "m:t", ">">> \o escaped
            \o <<"<", "/m:t", ">", "<", "/m:r", ">">>

----------------------------------------------------------------------------
(* lw.py: the patterns *)

Braces == {"{", "}"}

\* index of the first element of s at or after i that is in chars, Len(s) + 1
\* when there is none
NextOf(s, i, chars) ==
    LET at == {j \in i..Len(s) : s[j] \in chars}
    IN IF at = {} THEN Len(s) + 1 ELSE Min(at)

\* [^{}]+(?:\{[^{}]*\}[^{}]*)* followed by \}, from i on where the first
\* character of the group has been taken: the index of the closing brace, 0
\* when the pattern does not match.  A brace is never skipped, so the match
\* is the only one the pattern has from this start.
RECURSIVE FracGroupRest(_, _)
FracGroupRest(s, i) ==
    LET b == NextOf(s, i, Braces)
    IN IF b > Len(s) THEN 0
       ELSE IF s[b] = "}" THEN b
       ELSE LET c == NextOf(s, b + 1, Braces)
            IN IF c > Len(s) \/ s[c] = "{" THEN 0 ELSE FracGroupRest(s, c + 1)

FracGroupEnd(s, i) ==
    IF i > Len(s) \/ s[i] \in Braces THEN 0 ELSE FracGroupRest(s, i + 1)

\* frac_pattern tried at position i
FracMatchAt(s, i) ==
    LET n == i + Len(FRAC_OPEN)
        e1 == IF StartsWithAt(s, i, FRAC_OPEN) THEN FracGroupEnd(s, n) ELSE 0
        e2 == IF e1 > 0 /\ e1 < Len(s) /\ s[e1 + 1] = "{" THEN FracGroupEnd(s, e1 + 2) ELSE 0
    IN IF e2 = 0 THEN [found |-> FALSE, start |-> 0, end |-> 0, group1 |-> <<>>, group2 |-> <<>>]
       ELSE [found |-> TRUE, start |-> i, end |-> e2,
             group1 |-> SubSeq(s, n, e1 - 1), group2 |-> SubSeq(s, e1 + 2, e2 - 1)]

\* re.search(frac_pattern, s): the leftmost match
FracSearch(s) ==
    LET starts == {i \in 1..Len(s) : FracMatchAt(s, i).found}
    IN IF starts = {} THEN FracMatchAt(s, 0) ELSE FracMatchAt(s, Min(starts))

\* last index of the run of elements of class that starts at i, i - 1 when
\* s[i] is not in class
RunEnd(s, i, class) ==
    LET stop == {j \in i..Len(s) : s[j] \notin class}
    IN IF stop = {} THEN Len(s) ELSE Min(stop) - 1

\* mark \{ group \} at i, mark being "_" or "^" and group one or more
\* characters that are not in closers: index of the closing brace, 0 when
\* there is no match
ScriptGroupEnd(s, i, mark, closers) ==
    IF i + 1 <= Len(s) /\ s[i] = mark /\ s[i + 1] = "{"
    THEN LET b == NextOf(s, i + 2, closers)
         IN IF b <= Len(s) /\ s[b] = "}" /\ b > i + 2 THEN b ELSE 0
    ELSE 0

NoScriptMatch == [found |-> FALSE, start |-> 0, end |-> 0,
                  group1 |-> <<>>, group2 |-> <<>>, group3 |-> <<>>]

\* (class+)_\{(group)\}\^\{(group)\} tried at position i
SubSupMatchAt(s, i, class, closers) ==
    LET r == RunEnd(s, i, class)
        e1 == IF r >= i THEN ScriptGroupEnd(s, r + 1, "_", closers) ELSE 0
        e2 == IF e1 > 0 THEN ScriptGroupEnd(s, e1 + 1, "^", closers) ELSE 0
    IN IF e2 = 0 THEN NoScriptMatch
       ELSE [found |-> TRUE, start |-> i, end |-> e2, group1 |-> SubSeq(s, i, r),
             group2 |-> SubSeq(s, r + 3, e1 - 1), group3 |-> SubSeq(s, e1 + 3, e2 - 1)]

\* (class+) mark \{(group)\} tried at position i
ScriptMatchAt(s, i, class, mark, closers) ==
    LET r == RunEnd(s, i, class)
        e1 == IF r >= i THEN ScriptGroupEnd(s, r + 1, mark, closers) ELSE 0
    IN IF e1 = 0 THEN NoScriptMatch
       ELSE [found |-> TRUE, start |-> i, end |-> e1, group1 |-> SubSeq(s, i, r),
             group2 |-> SubSeq(s, r + 3, e1 - 1), group3 |-> <<>>]

\* \\sum_\{([^}]+)\}\^\{([^}]+)\} tried at position i
SumMatchAt(s, i) ==
    LET u == i + Len(SUM_OPEN) - 2
        e1 == IF StartsWithAt(s, i, SUM_OPEN) THEN ScriptGroupEnd(s, u, "_", {"}"}) ELSE 0
        e2 == IF e1 > 0 THEN ScriptGroupEnd(s, e1 + 1, "^", {"}"}) ELSE 0
    IN IF e2 = 0 THEN NoScriptMatch
       ELSE [found |-> TRUE, start |-> i, end |-> e2, group1 |-> SubSeq(s, u + 2, e1 - 1),
             group2 |-> SubSeq(s, e1 + 3, e2 - 1), group3 |-> <<>>]

\* re.search(r'\\begin\{array\}(.+?)\\end\{array\}', s, re.DOTALL): the
\* leftmost \begin{array} that has an \end{array} at least one character
\* behind it, up to the nearest such \end{array}
ArraySearch(s) ==
    LET ends(i) == {j \in (i + Len(BEGIN_ARRAY) + 1)..Len(s) : StartsWithAt(s, j, END_ARRAY)}
        starts == {i \in 1..Len(s) : StartsWithAt(s, i, BEGIN_ARRAY) /\ ends(i) # {}}
    IN IF starts = {} THEN [found |-> FALSE, group1 |-> <<>>]
       ELSE [found |-> TRUE,
             group1 |-> SubSeq(s, Min(starts) + Len(BEGIN_ARRAY), Min(ends(Min(starts))) - 1)]

----------------------------------------------------------------------------
(* lw.py: parse_latex_structure and its converters.  The value is the      *)
(* returned string, Diverges when the call does not return, Raises when it *)
(* leaves with an exception.                                               *)

ScriptBase == Letters \cup Digits \cup {"\\"}

\* a variant that looks for a fraction before it looks for an array
Dispatch_frac_first(latex_code) ==
    IF Contains(latex_code, FRAC_OPEN) THEN "convert_fraction_to_omath"
    ELSE IF Contains(latex_code, BEGIN_ARRAY) THEN "convert_array_to_omath"
    ELSE IF Contains(latex_code, <<"^">>) \/ Contains(latex_code, <<"_">>)
         THEN "convert_scripts_to_omath"
    ELSE "convert_text_to_omath"

\* the converter whose value parse_latex_structure returns
Dispatch(latex_code) ==
    IF Contains(latex_code, BEGIN_ARRAY) THEN "convert_array_to_omath"
    ELSE IF Contains(latex_code, FRAC_OPEN) THEN "convert_fraction_to_omath"
    ELSE IF Contains(latex_code, <<"^">>) \/ Contains(latex_code, <<"_">>)
         THEN "convert_scripts_to_omath"
    ELSE "convert_text_to_omath"

RECURSIVE parse_latex_structure(_)
RECURSIVE convert_array_to_omath(_)
RECURSIVE convert_fraction_to_omath(_)
RECURSIVE convert_scripts_to_omath(_)

\* ''.join(omath_cells) for the cells from the k-th on
RECURSIVE CellLoop(_, _)
CellLoop(cells, k) ==
    IF k > Len(cells) THEN <<>>
    ELSE Join(<< <<"<", "m:e", ">">>,
                 parse_latex_structure(Strip(cells[k])),
                 <<"<", "/m:e", ">">>,
                 CellLoop(cells, k + 1) >>)

\* the loop over rows; st = [omath_rows, cells], omath_rows already joined,
\* cells <<>> while the name is unbound and <<c>> once it is bound to c
\* one row that is not blank: st after its cells have been converted
RowStep(st, cells) ==
    [omath_rows |-> Join(<< st.omath_rows,
                            <<"<", "m:mr", ">", "\n                ">>,
                            CellLoop(cells, 1),
                            <<"\n            ", "<", "/m:mr", ">">> >>),
     cells |-> <<cells>>]

RECURSIVE RowLoop(_, _, _)
RowLoop(rows, k, st) ==
    IF k > Len(rows) \/ Failed(st.omath_rows) THEN st
    ELSE IF Strip(rows[k]) = <<>> THEN RowLoop(rows, k + 1, st)
    ELSE RowLoop(rows, k + 1, RowStep(st, Split(rows[k], <<"&">>)))

\* the return statement of convert_array_to_omath, st being what the loop left
ArrayReturn(st) ==
    IF Failed(st.omath_rows) THEN st.omath_rows
    ELSE IF Len(st.cells) = 0 THEN Raises   \* len(cells): cells was never assigned
    ELSE Join(<< <<"<", "m:m", ">", "\n            ",
                      "<", "m:mPr", ">", "\n                ",
                      "<", "m:mcs", ">", "\n                    ",
                      "<", "m:mc", ">", "\n                        ",
                      "<", "m:mcPr", ">", "\n                            ",
                      "<", "m:count m:val=\"">>,
                    ToChars(Len(st.cells[1])),
                    <<"\"/", ">", "\n                            ",
                      "<", "m:mcJc m:val=\"center\"/", ">", "\n                        ",
                      "<", "/m:mcPr", ">", "\n                    ",
                      "<", "/m:mc", ">", "\n                ",
                      "<", "/m:mcs", ">", "\n            ",
                      "<", "/m:mPr", ">", "\n            ">>,
              st.omath_rows,
              <<"\n        ", "<", "/m:m", ">">> >>)

\* convert_array_to_omath behind the search
ArrayRows(latex_code, array_match) ==
    IF ~array_match.found THEN convert_text_to_omath(latex_code)
    ELSE ArrayReturn(RowLoop(Split(array_match.group1, <<"\\", "\\">>), 1,
                             [omath_rows |-> <<>>, cells |-> <<>>]))

convert_array_to_omath(latex_code) == ArrayRows(latex_code, ArraySearch(latex_code))

frac_replacer(match) ==
    Join(<< <<"<", "m:f", ">", "\n                ",
              "<", "m:fPr", ">", "\n                    ",
              "<", "m:type m:val=\"bar\"/", ">", "\n                ",
              "<", "/m:fPr", ">", "\n                ",
              "<", "m:num", ">">>,
            parse_latex_structure(match.group1),
            <<"<", "/m:num", ">", "\n                ", "<", "m:den", ">">>,
            parse_latex_structure(match.group2),
            <<"<", "/m:den", ">", "\n            ", "<", "/m:f", ">">> >>)

\* while '\\frac{' in result: result = re.sub(frac_pattern, frac_replacer, result, count=1)
\* (result is res here).  re.sub returns its input when the pattern matches nowhere, and the
\* loop then runs on the same string for ever
RECURSIVE FracLoop(_)

\* the loop goes on with what re.sub returned, unless the replacer did not return
FracLoopNext(replaced) == IF Failed(replaced) THEN replaced ELSE FracLoop(replaced)

\* re.sub(frac_pattern, frac_replacer, res, count=1), match being the leftmost match
FracLoopSub(res, match) ==
    IF ~match.found THEN Diverges
    ELSE FracLoopNext(Join(<< SubSeq(res, 1, match.start - 1),
                              frac_replacer(match),
                              SubSeq(res, match.end + 1, Len(res)) >>))

FracLoop(res) ==
    IF ~Contains(res, FRAC_OPEN) THEN res ELSE FracLoopSub(res, FracSearch(res))

\* convert_fraction_to_omath behind the loop
FracReturn(latex_code, res) ==
    IF Failed(res) THEN res
    ELSE IF res # latex_code THEN parse_latex_structure(res)
    ELSE convert_text_to_omath(res)

convert_fraction_to_omath(latex_code) == FracReturn(latex_code, FracLoop(latex_code))

subsup_replacer(match) ==
    Join(<< <<"<", "m:sSubSup", ">", "\n                ",
              "<", "m:sSubSupPr", ">", "\n                    ",
              "<", "m:ctrlPr/", ">", "\n                ",
              "<", "/m:sSubSupPr", ">", "\n                ",
              "<", "m:e", ">">>,
            convert_text_to_omath(match.group1),
            <<"<", "/m:e", ">", "\n                ", "<", "m:sub", ">">>,
            parse_latex_structure(match.group2),
            <<"<", "/m:sub", ">", "\n                ", "<", "m:sup", ">">>,
            parse_latex_structure(match.group3),
            <<"<", "/m:sup", ">", "\n            ", "<", "/m:sSubSup", ">">> >>)

sup_replacer(match) ==
    Join(<< <<"<", "m:sSup", ">", "\n                ",
              "<", "m:sSupPr", ">", "\n                    ",
              "<", "m:ctrlPr/", ">", "\n                ",
              "<", "/m:sSupPr", ">", "\n                ",
              "<", "m:e", ">">>,
            convert_text_to_omath(match.group1),
            <<"<", "/m:e", ">", "\n                ", "<", "m:sup", ">">>,
            parse_latex_structure(match.group2),
            <<"<", "/m:sup", ">", "\n            ", "<", "/m:sSup", ">">> >>)

sub_replacer(match) ==
    Join(<< <<"<", "m:sSub", ">", "\n                ",
              "<", "m:sSubPr", ">", "\n                    ",
              "<", "m:ctrlPr/", ">", "\n                ",
              "<", "/m:sSubPr", ">", "\n                ",
              "<", "m:e", ">">>,
            convert_text_to_omath(match.group1),
            <<"<", "/m:e", ">", "\n                ", "<", "m:sub", ">">>,
            parse_latex_structure(match.group2),
            <<"<", "/m:sub", ">", "\n            ", "<", "/m:sSub", ">">> >>)

\* the three patterns of convert_scripts_to_omath tried at position i
ScriptPatternAt(s, i, pattern) ==
    CASE pattern = "subsup_pattern" -> SubSupMatchAt(s, i, ScriptBase, Braces)
      [] pattern = "sup_pattern" -> ScriptMatchAt(s, i, ScriptBase, "^", Braces)
      [] pattern = "sub_pattern" -> ScriptMatchAt(s, i, ScriptBase, "_", Braces)

ScriptReplacer(pattern, match) ==
    CASE pattern = "subsup_pattern" -> subsup_replacer(match)
      [] pattern = "sup_pattern" -> sup_replacer(match)
      [] pattern = "sub_pattern" -> sub_replacer(match)

\* re.sub(pattern, replacer, s): every match from left to right, the search
\* going on behind the match
RECURSIVE ScriptSubFrom(_, _, _)

\* the text up to the match, the replacement, and the rest of the search
ScriptSubMatch(s, i, pattern, match) ==
    Join(<< SubSeq(s, i, match.start - 1),
            ScriptReplacer(pattern, match),
            ScriptSubFrom(s, match.end + 1, pattern) >>)

\* starts: the positions from i on where the pattern matches
ScriptSubStarts(s, i, pattern, starts) ==
    IF starts = {} THEN SubSeq(s, i, Len(s))
    ELSE ScriptSubMatch(s, i, pattern, ScriptPatternAt(s, Min(starts), pattern))

ScriptSubFrom(s, i, pattern) ==
    ScriptSubStarts(s, i, pattern, {j \in i..Len(s) : ScriptPatternAt(s, j, pattern).found})

ScriptSub(s, pattern) == IF Failed(s) THEN s ELSE ScriptSubFrom(s, 1, pattern)

\* the return statement of convert_scripts_to_omath
ScriptsReturn(latex_code, res) ==
    IF Failed(res) THEN res
    ELSE IF res = latex_code THEN convert_text_to_omath(res)
    ELSE res

convert_scripts_to_omath(latex_code) ==
    ScriptsReturn(latex_code,
                  ScriptSub(ScriptSub(ScriptSub(latex_code, "subsup_pattern"),
                                      "sup_pattern"),
                            "sub_pattern"))

parse_latex_structure(latex_code) ==
    CASE Dispatch(latex_code) = "convert_array_to_omath" -> convert_array_to_omath(latex_code)
      [] Dispatch(latex_code) = "convert_fraction_to_omath" -> convert_fraction_to_omath(latex_code)
      [] Dispatch(latex_code) = "convert_scripts_to_omath" -> convert_scripts_to_omath(latex_code)
      [] OTHER -> convert_text_to_omath(latex_code)

----------------------------------------------------------------------------
(* lw.py: parse_latex_to_omath and the create_*_omath functions.  An       *)
(* element is [tag, val, text, children]: val is its m:val attribute and   *)
(* text its text, <<>> where it has none.                                  *)

clean_latex_text_replacements ==
    <<
    <<<<"\\", "m", "a", "t", "h", "r", "m">>, <<>>>>,
    <<<<"\\", "m", "a", "t", "h", "b", "b">>, <<>>>>,
    <<<<"\\", "m", "a", "t", "h", "b", "f">>, <<>>>>,
    <<<<"\\", "o", "p", "e", "r", "a", "t", "o", "r", "n", "a", "m", "e">>, <<>>>>,
    <<<<"\\", "d", "i", "s", "p", "l", "a", "y", "s", "t", "y", "l", "e">>, <<>>>>,
    <<<<"\\", "s", "c", "r", "i", "p", "t", "s", "i", "z", "e">>, <<>>>>,
    <<<<"\\", "t", "i", "n", "y">>, <<>>>>,
    <<<<"\\", "l", "a", "r", "g", "e">>, <<>>>>,
    <<<<"\\", "l", "e", "f", "t">>, <<>>>>,
    <<<<"\\", "r", "i", "g", "h", "t">>, <<>>>>,
    <<<<"\\", "c", "d", "o", "t">>, <<"U+00B7">>>>,
    <<<<"\\", "t", "i", "m", "e", "s">>, <<"U+00D7">>>>,
    <<<<"\\", "p", "m">>, <<"U+00B1">>>>,
    <<<<"\\", "s", "u", "m">>, <<"U+2211">>>>,
    <<<<"\\", "i", "n", "t">>, <<"U+222B">>>>,
    <<<<"\\", "a", "l", "p", "h", "a">>, <<"U+03B1">>>>,
    <<<<"\\", "b", "e", "t", "a">>, <<"U+03B2">>>>,
    <<<<"\\", "g", "a", "m", "m", "a">>, <<"U+03B3">>>>,
    <<<<"\\", "d", "e", "l", "t", "a">>, <<"U+03B4">>>>,
    <<<<"\\", "i", "n", "f", "t", "y">>, <<"U+221E">>>>,
    <<<<"\\", "p", "a", "r", "t", "i", "a", "l">>, <<"U+2202">>>>,
    <<<<"\\", "l", "e", "q">>, <<"U+2264">>>>,
    <<<<"\\", "g", "e", "q">>, <<"U+2265">>>>,
    <<<<"\\", "n", "e", "q">>, <<"U+2260">>>>,
    <<<<"\\", "a", "p", "p", "r", "o", "x">>, <<"U+2248">>>>,
    <<<<"{">>, <<>>>>,
    <<<<"}">>, <<>>>>,
    <<<<"~">>, <<" ">>>>
    >>

clean_latex_text(text) == Strip(ReplaceAll(text, clean_latex_text_replacements, 1))

Element(tag, val, text, children) ==
    [tag |-> tag, val |-> val, text |-> text, children |-> children]

\* the call left with an exception instead of returning an element
RaisedElement == Element("<raises>", <<>>, <<>>, <<>>)

\* an lxml element is true when it has children
ElementTruthy(e) == Len(e.children) > 0

\* OxmlElement(tag) with the children appended in order; a child that could
\* not be built because its construction raised ends the construction
Build(tag, children) ==
    IF \E k \in 1..Len(children) : children[k] = RaisedElement
    THEN RaisedElement
    ELSE Element(tag, <<>>, <<>>, children)

create_text_omath(text) ==
    Element("m:r", <<>>, <<>>, <<Element("m:t", <<>>, clean_latex_text(text), <<>>)>>)

create_subsup_omath(base, subscript, superscript) ==
    Build("m:sSubSup",
          <<Element("m:sSubSupPr", <<>>, <<>>, <<>>),
            Build("m:e", <<create_text_omath(base)>>),
            Build("m:sub", <<create_text_omath(subscript)>>),
            Build("m:sup", <<create_text_omath(superscript)>>)>>)

create_subscript_omath(base, subscript) ==
    Build("m:sSub",
          <<Element("m:sSubPr", <<>>, <<>>, <<>>),
            Build("m:e", <<create_text_omath(base)>>),
            Build("m:sub", <<create_text_omath(subscript)>>)>>)

create_superscript_omath(base, superscript) ==
    Build("m:sSup",
          <<Element("m:sSupPr", <<>>, <<>>, <<>>),
            Build("m:e", <<create_text_omath(base)>>),
            Build("m:sup", <<create_text_omath(superscript)>>)>>)

\* OxmlElement.nsmap['m'] is looked up before anything is appended: has_nsmap
\* says whether the installed python-docx gives OxmlElement that attribute;
\* without it the lookup raises AttributeError
create_sum_omath(lower, upper, has_nsmap) ==
    IF ~has_nsmap THEN RaisedElement
    ELSE Build("m:nary",
               <<Build("m:naryPr", <<Element("m:chr", <<"U+2211">>, <<>>, <<>>),
                                     Element("m:limLoc", <<"u", "n", "d", "O", "v", "r">>,
                                             <<>>, <<>>)>>),
                 Build("m:sub", <<create_text_omath(lower)>>),
                 Build("m:sup", <<create_text_omath(upper)>>),
                 Element("m:e", <<>>, <<>>, <<>>)>>)

\* the <m:e> of the cells of one row
CreateCells(cells) ==
    [k \in 1..Len(cells) |-> Build("m:e", <<create_text_omath(Strip(cells[k]))>>)]

\* the <m:mr> of the rows that are not blank, in order
RECURSIVE CreateRows(_, _)
CreateRows(rows, k) ==
    IF k > Len(rows) THEN <<>>
    ELSE IF Strip(rows[k]) = <<>> THEN CreateRows(rows, k + 1)
    ELSE <<Build("m:mr", CreateCells(Split(rows[k], <<"&">>)))>> \o CreateRows(rows, k + 1)

create_array_omath(latex_code) ==
    LET array_match == ArraySearch(latex_code)
    IN IF ~array_match.found THEN create_text_omath(latex_code)
       ELSE Build("m:m", CreateRows(Split(array_match.group1, <<"\\", "\\">>), 1))

\* re.search of the script patterns of parse_latex_to_omath and
\* _build_omath_com: the leftmost match
SearchSubSup(s, class) ==
    LET starts == {i \in 1..Len(s) : SubSupMatchAt(s, i, class, {"}"}).found}
    IN IF starts = {} THEN NoScriptMatch ELSE SubSupMatchAt(s, Min(starts), class, {"}"})

SearchScript(s, class, mark) ==
    LET starts == {i \in 1..Len(s) : ScriptMatchAt(s, i, class, mark, {"}"}).found}
    IN IF starts = {} THEN NoScriptMatch ELSE ScriptMatchAt(s, Min(starts), class, mark, {"}"})

SearchSum(s) ==
    LET starts == {i \in 1..Len(s) : SumMatchAt(s, i).found}
    IN IF starts = {} THEN NoScriptMatch ELSE SumMatchAt(s, Min(starts))

RECURSIVE parse_latex_to_omath(_, _)

\* x or y
ElementOr(x, y) == IF x = RaisedElement \/ ElementTruthy(x) THEN x ELSE y

create_fraction_omath(numerator, denominator, has_nsmap) ==
    IF ~has_nsmap THEN RaisedElement
    ELSE Build("m:f",
               <<Build("m:fPr", <<Element("m:type", <<"b", "a", "r">>, <<>>, <<>>)>>),
                 Build("m:num", <<ElementOr(parse_latex_to_omath(numerator, has_nsmap),
                                            create_text_omath(numerator))>>),
                 Build("m:den", <<ElementOr(parse_latex_to_omath(denominator, has_nsmap),
                                            create_text_omath(denominator))>>)>>)

parse_latex_to_omath(latex_code, has_nsmap) ==
    LET frac_match == FracSearch(latex_code)
        subsup_match == SearchSubSup(latex_code, Letters)
        sub_match == SearchScript(latex_code, Letters, "_")
        sup_match == SearchScript(latex_code, Letters \cup Digits, "^")
        sum_match == SearchSum(latex_code)
    IN IF frac_match.found
       THEN create_fraction_omath(frac_match.group1, frac_match.group2, has_nsmap)
       ELSE IF subsup_match.found
       THEN create_subsup_omath(subsup_match.group1, subsup_match.group2, subsup_match.group3)
       ELSE IF sub_match.found
       THEN create_subscript_omath(sub_match.group1, sub_match.group2)
       ELSE IF sup_match.found
       THEN create_superscript_omath(sup_match.group1, sup_match.group2)
       ELSE IF sum_match.found
       THEN create_sum_omath(sum_match.group1, sum_match.group2, has_nsmap)
       ELSE IF Contains(latex_code, BEGIN_ARRAY)
       THEN create_array_omath(latex_code)
       ELSE create_text_omath(latex_code)

----------------------------------------------------------------------------
(* lw.py: _build_omath_com.  The value is what the call leaves in the      *)
(* OMath object: the function added with omath.Functions.Add and the texts *)
(* assigned to its parts, or the text assigned to omath.Range.  com_ok     *)
(* says whether omath.Functions.Add succeeds; its exception is caught and  *)
(* the cleaned text is assigned to omath.Range instead.                    *)

ComFunction(function, type, texts) == [function |-> function, type |-> type, texts |-> texts]

ComText(latex) == ComFunction("Range.Text", 0, <<clean_latex_text(latex)>>)

_build_omath_com(latex, com_ok) ==
    LET frac_match == IF Contains(latex, FRAC_OPEN) THEN FracSearch(latex)
                      ELSE FracMatchAt(latex, 0)
        subsup_match == SearchSubSup(latex, Letters)
        sub_match == SearchScript(latex, Letters, "_")
        sup_match == SearchScript(latex, Letters, "^")
        sum_match == SearchSum(latex)
        built ==
            IF frac_match.found
            THEN ComFunction("Frac", 1, <<clean_latex_text(frac_match.group1),
                                          clean_latex_text(frac_match.group2)>>)
            ELSE IF subsup_match.found
            THEN ComFunction("SubSup", 8, <<clean_latex_text(subsup_match.group1),
                                            clean_latex_text(subsup_match.group2),
                                            clean_latex_text(subsup_match.group3)>>)
            ELSE IF sub_match.found
            THEN ComFunction("ScrSub", 6, <<clean_latex_text(sub_match.group1),
                                            clean_latex_text(sub_match.group2)>>)
            ELSE IF sup_match.found
            THEN ComFunction("ScrSup", 7, <<clean_latex_text(sup_match.group1),
                                            clean_latex_text(sup_match.group2)>>)
            ELSE IF sum_match.found
            THEN ComFunction("Nary", 13, <<clean_latex_text(sum_match.group1)
                                           \o <<" ", "t", "o", " ">>
                                           \o clean_latex_text(sum_match.group2)>>)
            ELSE ComText(latex)
    IN IF built.function # "Range.Text" /\ ~com_ok THEN ComText(latex) ELSE built

----------------------------------------------------------------------------
(* ln.py: PipelineTimer *)

\* None is "None"; a value of time.time() is "time", an elapsed time "elapsed"

EmptyStages == [n \in {} |-> "elapsed"]

\* __init__
PipelineTimer ==
    [stages |-> EmptyStages, total_start_time |-> "None",
     current_stage |-> "None", current_start_time |-> "None"]

start_total(t) == [t EXCEPT !.total_start_time = "time"]

\* self.stages[self.current_stage] = elapsed, then both current fields are reset
end_stage(t) ==
    IF Truthy(t.current_stage) /\ t.current_start_time # "None"
    THEN [t EXCEPT !.stages = [n \in DOMAIN t.stages \cup {t.current_stage} |-> "elapsed"],
                   !.current_stage = "None",
                   !.current_start_time = "None"]
    ELSE t

\* a variant that starts the new stage without ending the active one
start_stage_overwrite(t, stage_name) ==
    [t EXCEPT !.current_stage = stage_name, !.current_start_time = "time"]

start_stage(t, stage_name) ==
    [(IF Truthy(t.current_stage) THEN end_stage(t) ELSE t)
        EXCEPT !.current_stage = stage_name, !.current_start_time = "time"]

\* the summary that follows is only printed
end_total(t) == IF Truthy(t.current_stage) THEN end_stage(t) ELSE t

\* the names process_with_mineru gives its stages
StageNames == {"MinerU Deep Learning Processing", "Content Analysis & Separation"}

Call(op, stage_name) == [op |-> op, stage_name |-> stage_name]

\* one call of a method of the timer: call = [op, stage_name]
TimerCall(t, call) ==
    CASE call.op = "start_total" -> start_total(t)
      [] call.op = "start_stage" -> start_stage(t, call.stage_name)
      [] call.op = "end_stage" -> end_stage(t)
      [] call.op = "end_total" -> end_total(t)

\* the timer after a sequence of calls
RECURSIVE TimerCalls(_, _)
TimerCalls(t, calls) ==
    IF calls = <<>> THEN t ELSE TimerCalls(TimerCall(t, Head(calls)), Tail(calls))

\* no method of a timer has been called
IdleTm ==
    /\ timer = PipelineTimer
    /\ timer_calls = <<>>

----------------------------------------------------------------------------
(* ln.py: MinerUProcessor.process_with_mineru *)

\* what the call meets:
\*   pre_raise    an exception before the try block (lines 874-884)
\*   popen_raise  an exception while magic-pdf is started or its output read
\*   returncode   exit code of magic-pdf
\*   auto_exists  output_dir.glob("**/*auto") is not empty
\*   json         "content_list": a *_content_list.json is there;
\*                "extracted": none, but extract_content_from_mineru_output
\*                             returns a non-empty list, which is written and loaded;
\*                "other": none and nothing extracted, some other *.json is loaded;
\*                "none": no *.json at all
\*   content      what json.load gives: "items", "empty" or "unreadable"
PwmEnvs ==
    { e \in [pre_raise : BOOLEAN, popen_raise : BOOLEAN, returncode : ExitCodes,
              auto_exists : BOOLEAN,
              json : {"content_list", "extracted", "other", "none"},
              content : {"items", "empty", "unreadable"}] :
        /\ (e.json = "extracted" => e.content # "empty")
        /\ (e.json = "none" => e.content = "empty") }

NoPwm == [env |-> [pre_raise |-> FALSE, popen_raise |-> FALSE, returncode |-> 0,
                   auto_exists |-> FALSE, json |-> "none", content |-> "empty"],
          ret |-> "unset", nougat_called |-> FALSE]

\* lines 1020-1071: the content list is looked for, loaded and checked
AnalyseContent(e) ==
    IF e.json = "none" THEN "dir"
    ELSE IF e.content = "unreadable" THEN "False"
    ELSE IF e.content = "empty" THEN "False"
    ELSE "dir"

\* ret: "dir" for the returned auto_dir, "False", or "raise" when the
\* exception leaves the function
process_with_mineru(e) ==
    IF e.pre_raise THEN [env |-> e, ret |-> "raise", nougat_called |-> FALSE]
    ELSE IF e.popen_raise THEN [env |-> e, ret |-> "False", nougat_called |-> FALSE]
    ELSE IF e.returncode # 0 THEN [env |-> e, ret |-> "False", nougat_called |-> FALSE]
    ELSE IF ~e.auto_exists THEN [env |-> e, ret |-> "False", nougat_called |-> TRUE]
    ELSE [env |-> e, ret |-> AnalyseContent(e), nougat_called |-> TRUE]

\* the calls process_with_mineru makes on its own timer, by the way it leaves:
\* "return False" at lines 995, 1015 and 1059 leaves without a call, the
\* except clause calls end_total, the end of the try block end_stage and end_total
PwmTimerCalls(e) ==
    IF e.pre_raise THEN <<>>
    ELSE <<Call("start_total", "None"),
           Call("start_stage", "MinerU Deep Learning Processing")>>
         \o (IF e.popen_raise THEN <<Call("end_total", "None")>>
             ELSE IF e.returncode # 0 THEN <<>>
             ELSE <<Call("end_stage", "None"),
                    Call("start_stage", "Content Analysis & Separation")>>
                  \o (IF ~e.auto_exists THEN <<>>
                      ELSE IF e.json = "none"
                      THEN <<Call("end_stage", "None"), Call("end_total", "None")>>
                      ELSE IF e.content = "unreadable" THEN <<Call("end_total", "None")>>
                      ELSE IF e.content = "empty" THEN <<>>
                      ELSE <<Call("end_stage", "None"), Call("end_total", "None")>>))

----------------------------------------------------------------------------
(* ln.py: main *)

\* ln.py main has not run
IdleLn ==
    /\ mpc = "idle"
    /\ events = <<>>
    /\ auto_dir = "unset"
    /\ pwm = NoPwm
    /\ pdf_path = "unset"
    /\ exit_status = -1

InitLw ==
    /\ pc = "start"
    /\ stages_run = <<>>
    /\ raised = "none"
    /\ result = "unset"
    /\ path_info = FALSE
    /\ mineru = NoMineru
    /\ text_blocks = <<>>
    /\ formula_blocks = <<>>
    /\ merged_content = <<>>
    /\ final_word = [saved |-> FALSE, paragraphs |-> <<>>]
    /\ formula_placeholders = EmptyDict

Init == InitLw /\ IdleLn /\ IdleTx /\ IdleMg /\ IdleTm

\* the outcome of one stage: go on, or leave through the except clause
StageEnds(p, name, ok) ==
    /\ pc' = AfterStage(p, ok)
    /\ raised' = IF ok THEN raised ELSE name
    /\ result' = IF ok THEN result ELSE "None"

\* lines 83-91: a Word input is converted first; failure returns None
ConvertWordToPdf ==
    /\ pc = "start"
    /\ \E input_kind \in {"pdf", "docx"}, converted \in BOOLEAN :
          IF input_kind = "docx" /\ ~converted
          THEN pc' = "done" /\ result' = "None"
          ELSE pc' = "s1" /\ result' = result
    /\ UNCHANGED <<stages_run, raised, path_info, mineru, text_blocks,
                   formula_blocks, merged_content, final_word, formula_placeholders>>
    /\ UNCHANGED notLw

ExtractText ==
    /\ pc = "s1"
    /\ stages_run' = Append(stages_run, "extract_text_with_positions")
    /\ \E ok \in BOOLEAN, tb \in PipeTextLists :
          /\ StageEnds("s1", "extract_text_with_positions", ok)
          /\ text_blocks' = IF ok THEN tb ELSE text_blocks
    /\ UNCHANGED <<path_info, mineru, formula_blocks, merged_content,
                   final_word, formula_placeholders>>
    /\ UNCHANGED notLw

RemoveKorean ==
    /\ pc = "s2"
    /\ stages_run' = Append(stages_run, "remove_korean_text")
    /\ \E ok \in BOOLEAN : StageEnds("s2", "remove_korean_text", ok)
    /\ UNCHANGED <<path_info, mineru, text_blocks, formula_blocks,
                   merged_content, final_word, formula_placeholders>>
    /\ UNCHANGED notLw

RunMineru ==
    /\ pc = "s3"
    /\ stages_run' = Append(stages_run, "run_mineru")
    /\ \E rc1 \in ExitCodes, rc2 \in ExitCodes, env \in MineruEnvs :
          /\ mineru' = run_mineru(rc1, rc2, env)
          /\ StageEnds("s3", "run_mineru", mineru'.ret # "raise")
    /\ UNCHANGED <<path_info, text_blocks, formula_blocks,
                   merged_content, final_word, formula_placeholders>>
    /\ UNCHANGED notLw

ExtractFormulaImages ==
    /\ pc = "s4"
    /\ stages_run' = Append(stages_run, "extract_formula_images")
    /\ \E ok \in BOOLEAN, fb \in PipeFormulaLists :
          /\ StageEnds("s4", "extract_formula_images", ok)
          /\ formula_blocks' = IF ok THEN fb ELSE formula_blocks
    /\ UNCHANGED <<path_info, mineru, text_blocks, merged_content,
                   final_word, formula_placeholders>>
    /\ UNCHANGED notLw

ConvertWithNougat ==
    /\ pc = "s5"
    /\ stages_run' = Append(stages_run, "convert_with_nougat")
    /\ \E env \in NougatEnvs(formula_blocks) :
          LET r == convert_with_nougat(formula_blocks, env)
          IN  /\ StageEnds("s5", "convert_with_nougat", ~r.raised)
              /\ formula_blocks' = r.blocks
    /\ UNCHANGED <<path_info, mineru, text_blocks, merged_content,
                   final_word, formula_placeholders>>
    /\ UNCHANGED notLw

\* [6/7]: merge_text_and_formulas, then create_word_document; doc.save may fail
CreateWord ==
    /\ pc = "s6"
    /\ stages_run' = stages_run \o <<"merge_text_and_formulas", "create_word_document">>
    /\ LET m == merge_text_and_formulas(text_blocks, formula_blocks)
           w == create_word_document(m.lines, formula_placeholders)
       IN  /\ merged_content' = m.lines
           /\ text_blocks' = m.text_blocks
           /\ formula_blocks' = m.formula_blocks
           /\ formula_placeholders' = w.placeholders
           /\ \E ok \in BOOLEAN :
                 /\ StageEnds("s6", "create_word_document", ok)
                 /\ final_word' = IF ok
                                  THEN [saved |-> TRUE, paragraphs |-> w.paragraphs]
                                  ELSE final_word
    /\ UNCHANGED <<path_info, mineru>>
    /\ UNCHANGED notLw

GenerateHtml ==
    /\ pc = "s7"
    /\ stages_run' = Append(stages_run, "generate_html")
    /\ \E ok \in BOOLEAN : StageEnds("s7", "generate_html", ok)
    /\ UNCHANGED <<path_info, mineru, text_blocks, formula_blocks,
                   merged_content, final_word, formula_placeholders>>
    /\ UNCHANGED notLw

\* lines 161-184: all_paths.json is written and all_paths returned
WritePathInfo ==
    /\ pc = "write"
    /\ \E ok \in BOOLEAN :
          /\ pc' = "done"
          /\ path_info' = ok
          /\ result' = IF ok THEN "all_paths" ELSE "None"
          /\ raised' = IF ok THEN raised ELSE "write_path_info"
    /\ UNCHANGED <<stages_run, mineru, text_blocks, formula_blocks,
                   merged_content, final_word, formula_placeholders>>
    /\ UNCHANGED notLw

Next ==
    \/ ConvertWordToPdf
    \/ ExtractText
    \/ RemoveKorean
    \/ RunMineru
    \/ ExtractFormulaImages
    \/ ConvertWithNougat
    \/ CreateWord
    \/ GenerateHtml
    \/ WritePathInfo

Spec == Init /\ [][Next]_vars

----------------------------------------------------------------------------
(* ln.py main, continued: the steps *)

IdleLw ==
    /\ pc = "idle"
    /\ stages_run = <<>>
    /\ raised = "none"
    /\ result = "unset"
    /\ path_info = FALSE
    /\ mineru = NoMineru
    /\ text_blocks = <<>>
    /\ formula_blocks = <<>>
    /\ merged_content = <<>>
    /\ final_word = [saved |-> FALSE, paragraphs |-> <<>>]
    /\ formula_placeholders = EmptyDict

InitLn ==
    /\ mpc = "start"
    /\ events = <<>>
    /\ auto_dir = "unset"
    /\ pwm = NoPwm
    /\ pdf_path = "unset"
    /\ exit_status = -1

InitMain == InitLn /\ IdleLw /\ IdleTx /\ IdleMg /\ IdleTm

\* sys.exit(code), or the end of main (status 0)
Exit(code) ==
    /\ mpc' = "exit"
    /\ exit_status' = code

\* the statement after an optional stage
NextOptional(p) ==
    CASE p = "nougat" -> "word_json" [] p = "word_json" -> "position"
      [] p = "position" -> "md" [] p = "md" -> "viewer"

\* a variant that gives up when an optional stage fails
AfterOptional_exit(p, ok) == IF ok THEN NextOptional(p) ELSE "exit"

\* try: stage() except Exception: print(...): the next stage follows either way
AfterOptional(p, ok) == NextOptional(p)

\* lines 2209-2272: arguments, timer, cache, output directory
MainStart ==
    /\ mpc = "start"
    /\ \E argv \in {"none", "html_only", "file"}, input_exists \in BOOLEAN :
          CASE argv = "none" -> Exit(1)
            [] argv = "html_only" -> mpc' = "html_only" /\ exit_status' = exit_status
            [] argv = "file" ->
                 IF input_exists
                 THEN mpc' = "word" /\ exit_status' = exit_status
                 ELSE Exit(1)
    /\ UNCHANGED <<events, auto_dir, pwm, pdf_path>>
    /\ UNCHANGED notLn

\* lines 2219-2241: --html-only <auto_dir>
HtmlOnly ==
    /\ mpc = "html_only"
    /\ \E dir_exists \in BOOLEAN, pages_info \in BOOLEAN,
          viewer \in {"path", "None", "raise"} :
          IF ~dir_exists THEN Exit(1) /\ events' = events
          ELSE IF ~pages_info THEN Exit(1) /\ events' = events
          ELSE /\ events' = Append(events, [name |-> "create_viewer", ok |-> viewer = "path"])
               /\ IF viewer = "raise" THEN Exit(1) ELSE Exit(0)
    /\ UNCHANGED <<auto_dir, pwm, pdf_path>>
    /\ UNCHANGED notLn

\* lines 2274-2293: a Word input is converted; convert returns None on failure
WordToPdf ==
    /\ mpc = "word"
    /\ \E suffix \in {"pdf", "docx"}, has_pywin32 \in BOOLEAN,
          conv \in {"path", "None", "raise"} :
          IF suffix = "pdf"
          THEN /\ pdf_path' = "supplied" /\ events' = events
               /\ mpc' = "separate" /\ exit_status' = exit_status
          ELSE IF ~has_pywin32 THEN Exit(1) /\ pdf_path' = pdf_path /\ events' = events
          ELSE /\ events' = Append(events, [name |-> "convert", ok |-> conv = "path"])
               /\ IF conv = "raise" THEN Exit(1) /\ pdf_path' = pdf_path
                  ELSE /\ pdf_path' = IF conv = "path" THEN "converted" ELSE "None"
                       /\ mpc' = "separate" /\ exit_status' = exit_status
    /\ UNCHANGED <<auto_dir, pwm>>
    /\ UNCHANGED notLn

\* lines 2295-2319
SeparatePages ==
    /\ mpc = "separate"
    /\ \E success \in BOOLEAN :
          /\ events' = Append(events, [name |-> "separate_pages", ok |-> success])
          /\ IF success THEN mpc' = "mineru" /\ exit_status' = exit_status
             ELSE Exit(1)
    /\ UNCHANGED <<auto_dir, pwm, pdf_path>>
    /\ UNCHANGED notLn

\* where main goes with the value of process_with_mineru: "if auto_dir:" runs
\* the later stages, the else branch prints and main ends, an exception
\* reaches sys.exit(1)
AfterMineru(ret) ==
    IF ret = "dir" THEN [mpc |-> "nougat", exit_status |-> -1]
    ELSE IF ret = "False" THEN [mpc |-> "exit", exit_status |-> 0]
    ELSE [mpc |-> "exit", exit_status |-> 1]

\* lines 2321-2330, 2448-2455
ProcessMineru ==
    /\ mpc = "mineru"
    /\ \E e \in PwmEnvs :
          /\ pwm' = process_with_mineru(e)
          /\ auto_dir' = pwm'.ret
          /\ events' = Append(events, [name |-> "process_with_mineru", ok |-> pwm'.ret = "dir"])
          /\ mpc' = AfterMineru(pwm'.ret).mpc
          /\ exit_status' = AfterMineru(pwm'.ret).exit_status
          /\ timer_calls' = PwmTimerCalls(e)
          /\ timer' = TimerCalls(PipelineTimer, PwmTimerCalls(e))
    /\ UNCHANGED pdf_path
    /\ UNCHANGED notLnTm

\* one optional stage inside its own try/except
OptionalStage(p, name, outcomes) ==
    /\ mpc = p
    /\ \E ok \in outcomes :
          /\ events' = Append(events, [name |-> name, ok |-> ok])
          /\ mpc' = AfterOptional(p, ok)
          /\ exit_status' = IF mpc' = "exit" THEN 1 ELSE exit_status
    /\ UNCHANGED <<auto_dir, pwm, pdf_path>>
    /\ UNCHANGED notLn

\* enhance_formulas_with_nougat catches every Exception itself
EnhanceNougat == OptionalStage("nougat", "enhance_formulas_with_nougat", {TRUE})

WordJson == OptionalStage("word_json", "create_word_conversion_json", BOOLEAN)

PositionAnalysis == OptionalStage("position", "analyze_position_info", BOOLEAN)

MdEnhance == OptionalStage("md", "enhance_markdown_with_positions", BOOLEAN)

\* lines 2372-2447: the viewer; every outcome lets main run to its end
CreateViewer ==
    /\ mpc = "viewer"
    /\ \E viewer \in {"path", "None", "raise"} :
          /\ events' = Append(events, [name |-> "create_viewer", ok |-> viewer = "path"])
          /\ Exit(0)
    /\ UNCHANGED <<auto_dir, pwm, pdf_path>>
    /\ UNCHANGED notLn

NextMain ==
    \/ MainStart
    \/ HtmlOnly
    \/ WordToPdf
    \/ SeparatePages
    \/ ProcessMineru
    \/ EnhanceNougat
    \/ WordJson
    \/ PositionAnalysis
    \/ MdEnhance
    \/ CreateViewer

SpecMain == InitMain /\ [][NextMain]_vars

----------------------------------------------------------------------------
(* lw.py: the LaTeX converters applied to one input string *)

MaxPieces == 3          \* an input string is made of at most MaxPieces pieces

\* the pieces an input is made of
Pieces ==
    << FRAC_OPEN,
       <<"a">>,
       <<"}", "{", "b", "}">>,
       <<"\\", "s", "u", "m", "_", "{", "k", "}", "^", "{", "n", "}">>,
       BEGIN_ARRAY,
       END_ARRAY,
       <<"&">>,
       <<"\\", "\\">>,
       <<"x", "^", "{", "q", "_", "{", "1", "}", "}">> >>

RECURSIVE Concat(_)
Concat(ps) == IF ps = <<>> THEN <<>> ELSE Pieces[Head(ps)] \o Concat(Tail(ps))

LatexInputs ==
    {Concat(ps) : ps \in UNION {[1..n -> 1..Len(Pieces)] : n \in 0..MaxPieces}}

InitTx ==
    /\ tx_pc = "input"
    /\ tx_latex \in LatexInputs
    /\ converter = "none"
    /\ structure_xml = <<>>
    /\ omath_element = <<>>
    /\ com_calls = <<>>

InitLatex == InitTx /\ IdleLw /\ IdleLn /\ IdleMg /\ IdleTm

\* parse_latex_structure(latex_code)
ParseLatexStructure ==
    /\ tx_pc = "input"
    /\ tx_pc' = "parse_latex_structure"
    /\ converter' = Dispatch(tx_latex)
    /\ structure_xml' = parse_latex_structure(tx_latex)
    /\ UNCHANGED <<tx_latex, omath_element, com_calls>>
    /\ UNCHANGED notTx

\* parse_latex_to_omath(latex_code)
ParseLatexToOmath ==
    /\ tx_pc = "input"
    /\ \E has_nsmap \in BOOLEAN :
           omath_element' = parse_latex_to_omath(tx_latex, has_nsmap)
    /\ tx_pc' = "parse_latex_to_omath"
    /\ UNCHANGED <<tx_latex, converter, structure_xml, com_calls>>
    /\ UNCHANGED notTx

\* _build_omath_com(omath, latex)
BuildOmathCom ==
    /\ tx_pc = "input"
    /\ \E com_ok \in BOOLEAN :
           com_calls' = _build_omath_com(tx_latex, com_ok)
    /\ tx_pc' = "_build_omath_com"
    /\ UNCHANGED <<tx_latex, converter, structure_xml, omath_element>>
    /\ UNCHANGED notTx

NextLatex ==
    \/ ParseLatexStructure
    \/ ParseLatexToOmath
    \/ BuildOmathCom

SpecLatex == InitLatex /\ [][NextLatex]_vars

----------------------------------------------------------------------------
(* lw.py: merge_text_and_formulas applied to two block lists *)

MaxMergeText == 2       \* text blocks given to one merge
MaxMergeFormulas == 1   \* formula blocks given to one merge

\* the positions of the blocks of a merge: two columns for text, one for
\* formulas, and tops that are 5 or 10 apart
MergeTextGeom == Pages \X {0, 40} \X {0, 5, 10}
MergeFormulaGeom == Pages \X {20} \X {0, 5, 10}

\* the lists a merge is tried on, in any order of the blocks
MergeTextLists ==
    UNION { { [i \in 1..n |-> TextBlock(i, g[i][1], g[i][2], g[i][3], "t" \o ToString(i))]
              : g \in [1..n -> MergeTextGeom] }
            : n \in 0..MaxMergeText }

MergeFormulaLists ==
    UNION { { [i \in 1..n |-> FormulaBlock(100 + i, g[i][1], g[i][2], g[i][3],
                                           "f" \o ToString(i), i)]
              : g \in [1..n -> MergeFormulaGeom] }
            : n \in 0..MaxMergeFormulas }

InitMg ==
    /\ mg_pc = "input"
    /\ mg_text \in MergeTextLists
    /\ mg_formulas \in MergeFormulaLists
    /\ mg_result = <<>>

InitMerge == InitMg /\ IdleLw /\ IdleLn /\ IdleTx /\ IdleTm

\* merged_content = self.merge_text_and_formulas(text_blocks, formula_blocks)
Merge ==
    /\ mg_pc = "input"
    /\ mg_result' = merge_text_and_formulas(mg_text, mg_formulas)
    /\ mg_pc' = "merged"
    /\ UNCHANGED <<mg_text, mg_formulas>>
    /\ UNCHANGED notMg

NextMerge == Merge

SpecMerge == InitMerge /\ [][NextMerge]_vars

----------------------------------------------------------------------------
(* ln.py: calls of the methods of one PipelineTimer *)

MaxTimerCalls == 5      \* calls made on one timer

InitTimer ==
    /\ timer = PipelineTimer
    /\ timer_calls = <<>>
    /\ IdleLw /\ IdleLn /\ IdleTx /\ IdleMg

StartTotal ==
    /\ Len(timer_calls) < MaxTimerCalls
    /\ timer' = start_total(timer)
    /\ timer_calls' = Append(timer_calls, Call("start_total", "None"))
    /\ UNCHANGED notTm

StartStage ==
    /\ Len(timer_calls) < MaxTimerCalls
    /\ \E stage_name \in StageNames :
          /\ timer' = start_stage(timer, stage_name)
          /\ timer_calls' = Append(timer_calls, Call("start_stage", stage_name))
    /\ UNCHANGED notTm

EndStage ==
    /\ Len(timer_calls) < MaxTimerCalls
    /\ timer' = end_stage(timer)
    /\ timer_calls' = Append(timer_calls, Call("end_stage", "None"))
    /\ UNCHANGED notTm

EndTotal ==
    /\ Len(timer_calls) < MaxTimerCalls
    /\ timer' = end_total(timer)
    /\ timer_calls' = Append(timer_calls, Call("end_total", "None"))
    /\ UNCHANGED notTm

NextTimer ==
    \/ StartTotal
    \/ StartStage
    \/ EndStage
    \/ EndTotal

SpecTimer == InitTimer /\ [][NextTimer]_vars

----------------------------------------------------------------------------
(* Properties of lw.py run_pipeline (Spec) *)

IsPrefix(s, t) == Len(s) <= Len(t) /\ \A i \in 1..Len(s) : s[i] = t[i]

\* C1: the stages of run_pipeline start in the fixed order, each at most once
\* (stages_run is a prefix of StageOrder); a stage that raised is the last one
\* started, so no stage starts after an exception and every started stage
\* follows stages that returned; after an exception run_pipeline is over, has
\* returned None and has not written all_paths.json; all_paths.json is
\* written only after all stages ran without an exception.
C1_StagesInOrder ==
    /\ IsPrefix(stages_run, StageOrder)
    /\ (raised # "none" =>
          /\ pc = "done"
          /\ result = "None"
          /\ ~path_info
          /\ (raised = "write_path_info" \/ raised = stages_run[Len(stages_run)]))
    /\ (path_info => stages_run = StageOrder /\ raised = "none")

\* a run in which run_mineru raised: two stages returned before it, none follows
C1_Witness ==
    /\ pc = "done"
    /\ raised = "run_mineru"
    /\ stages_run = SubSeq(StageOrder, 1, 3)

AllRuns(paragraphs) ==
    { paragraphs[p][r] : <<p, r>> \in
        { q \in (DOMAIN paragraphs) \X (0..20) : q[2] \in DOMAIN paragraphs[q[1]] } }

\* C2: after run_pipeline returned all_paths, every formula block with
\* non-empty LaTeX has an OMath element carrying its LaTeX in the saved Word
\* document, and the document holds no placeholder run.
C2_FormulasEmbeddedAsOMath ==
    (pc = "done" /\ result = "all_paths") =>
        /\ \A i \in DOMAIN formula_blocks :
              Truthy(formula_blocks[i].latex) =>
                 \E run \in AllRuns(final_word.paragraphs) :
                    run.kind = "omath" /\ run.val = <<formula_blocks[i].latex>>
        /\ \A run \in AllRuns(final_word.paragraphs) : run.kind # "placeholder"

\* C3 as stated: MinerU is launched at most once in a run
C3_AtMostOneLaunch == Len(mineru.launches) <= 1

\* C3 amended: the magic-pdf command is launched at most once; a second launch
\* happens only after magic-pdf exited with a non-zero code, it is the
\* "python -m magic_pdf" form, and there is never a third launch.
C3_OneFallbackLaunch ==
    /\ Len(mineru.launches) <= 2
    /\ (Len(mineru.launches) >= 1 => mineru.launches[1].cmd = "magic-pdf")
    /\ (Len(mineru.launches) = 2 =>
          /\ mineru.launches[1].returncode # 0
          /\ mineru.launches[2].cmd = "python -m magic_pdf")

\* magic-pdf failed and MinerU was launched a second time
C3_Witness ==
    /\ Len(mineru.launches) = 2
    /\ mineru.launches[1].returncode # 0

\* C4: the cached copy is used only when neither <output>/<stem>/auto nor any
\* <output>/*/auto exists; when the cached directory is missing as well,
\* run_mineru raises; a directory is returned only if some MinerU launch
\* exited with code 0 or the cached copy was used.
C4_ResultOnlyAfterSuccessOrFallback ==
    mineru.ret # "unset" =>
        /\ (mineru.ret = "cached_copy" =>
              ~mineru.env.stem_auto /\ ~mineru.env.other_auto)
        /\ (~mineru.env.stem_auto /\ ~mineru.env.other_auto /\ ~mineru.env.cached =>
              mineru.ret = "raise")
        /\ (mineru.ret # "raise" =>
              \/ \E i \in DOMAIN mineru.launches : mineru.launches[i].returncode = 0
              \/ mineru.ret = "cached_copy")

----------------------------------------------------------------------------
(* Properties of ln.py main (SpecMain) *)

OptionalNames == <<"enhance_formulas_with_nougat", "create_word_conversion_json",
                   "analyze_position_info", "enhance_markdown_with_positions">>

AfterMineruNames == OptionalNames \o <<"create_viewer">>

IsOptional(name) == \E i \in DOMAIN OptionalNames : OptionalNames[i] = name

EventNames(evs) == [i \in DOMAIN evs |-> evs[i].name]

\* the index of the process_with_mineru call in events, 0 when there is none
MineruEvent ==
    IF \E i \in DOMAIN events : events[i].name = "process_with_mineru"
    THEN CHOOSE i \in DOMAIN events : events[i].name = "process_with_mineru"
    ELSE 0

EventsAfterMineru == SubSeq(events, MineruEvent + 1, Len(events))

\* C5: when process_with_mineru returned False or raised, main makes no
\* further stage call and the process ends with a non-zero exit status.
C5_MineruFailureExitsNonZero ==
    (mpc = "exit" /\ auto_dir \in {"False", "raise"}) =>
        /\ EventsAfterMineru = <<>>
        /\ exit_status # 0

\* C6: the optional stages and the viewer are called only after
\* process_with_mineru returned a directory; they are called in their order,
\* each at most once, whether or not an earlier one raised; and when main
\* ends after process_with_mineru returned a directory, all four optional
\* stages and then create_viewer were called exactly once.
C6_OptionalStagesContinue ==
    /\ \A i \in DOMAIN events : IsOptional(events[i].name) => auto_dir = "dir"
    /\ (MineruEvent # 0 /\ auto_dir # "dir" => EventsAfterMineru = <<>>)
    /\ (auto_dir = "dir" => IsPrefix(EventNames(EventsAfterMineru), AfterMineruNames))
    /\ (auto_dir = "dir" /\ mpc = "exit" =>
          EventNames(EventsAfterMineru) = AfterMineruNames)

\* main ended after an optional stage raised, and the viewer was still called
C6_Witness ==
    /\ mpc = "exit"
    /\ auto_dir = "dir"
    /\ \E i \in DOMAIN events : IsOptional(events[i].name) /\ ~events[i].ok
    /\ events[Len(events)].name = "create_viewer"

----------------------------------------------------------------------------
(* Properties of the LaTeX converters (SpecLatex) *)

\* pat stands in s at position i
OccursAt(s, i, pat) ==
    /\ i + Len(pat) - 1 <= Len(s)
    /\ \A k \in 1..Len(pat) : s[i + k - 1] = pat[k]

\* pat occurs in s
HasSub(s, pat) == \E i \in 1..Len(s) : OccursAt(s, i, pat)

ConverterNames == {"convert_array_to_omath", "convert_fraction_to_omath",
                   "convert_scripts_to_omath", "convert_text_to_omath"}

\* the converter the priority order of the tests selects for s
ByPriority(s) ==
    IF HasSub(s, <<"\\", "b", "e", "g", "i", "n", "{", "a", "r", "r", "a", "y", "}">>)
    THEN "convert_array_to_omath"
    ELSE IF HasSub(s, <<"\\", "f", "r", "a", "c", "{">>)
    THEN "convert_fraction_to_omath"
    ELSE IF HasSub(s, <<"^">>) \/ HasSub(s, <<"_">>)
    THEN "convert_scripts_to_omath"
    ELSE "convert_text_to_omath"

\* what the converter named c makes of s
ValueOf(c, s) ==
    CASE c = "convert_array_to_omath" -> convert_array_to_omath(s)
      [] c = "convert_fraction_to_omath" -> convert_fraction_to_omath(s)
      [] c = "convert_scripts_to_omath" -> convert_scripts_to_omath(s)
      [] c = "convert_text_to_omath" -> convert_text_to_omath(s)

\* C7: parse_latex_structure hands its input to exactly one converter and
\* returns what that converter makes of it; the converter is the one of the
\* first test that holds in the order array, fraction, script, plain text,
\* so an input with both an array and a fraction goes to the array converter.
C7_DispatchPriority ==
    tx_pc = "parse_latex_structure" =>
        /\ converter \in ConverterNames
        /\ converter = ByPriority(tx_latex)
        /\ structure_xml = ValueOf(converter, tx_latex)
        /\ (/\ HasSub(tx_latex, <<"\\", "b", "e", "g", "i", "n", "{", "a", "r", "r", "a", "y", "}">>)
            /\ HasSub(tx_latex, <<"\\", "f", "r", "a", "c", "{">>)
            => converter = "convert_array_to_omath")

\* an input with an array and a fraction has been handed to the array converter
C7_Witness ==
    /\ tx_pc = "parse_latex_structure"
    /\ HasSub(tx_latex, <<"\\", "b", "e", "g", "i", "n", "{", "a", "r", "r", "a", "y", "}">>)
    /\ HasSub(tx_latex, <<"\\", "f", "r", "a", "c", "{">>)
    /\ converter = "convert_array_to_omath"

\* the index of the "}" that closes a group of one or more characters other
\* than braces starting at k, 0 when there is no such group
GroupClose(s, k) ==
    IF \E j \in (k + 1)..Len(s) : s[j] = "}" /\ \A n \in k..(j - 1) : s[n] \notin {"{", "}"}
    THEN CHOOSE j \in (k + 1)..Len(s) : s[j] = "}" /\ \A n \in k..(j - 1) : s[n] \notin {"{", "}"}
    ELSE 0

\* \sum_{l}^{u} stands at i: <<i, end of l, end of u>>, <<>> when it does not
SumAt(s, i) ==
    IF OccursAt(s, i, <<"\\", "s", "u", "m", "_", "{">>) /\ GroupClose(s, i + 6) > 0
    THEN IF /\ OccursAt(s, GroupClose(s, i + 6) + 1, <<"^", "{">>)
            /\ GroupClose(s, GroupClose(s, i + 6) + 3) > 0
         THEN <<i, GroupClose(s, i + 6), GroupClose(s, GroupClose(s, i + 6) + 3)>>
         ELSE <<>>
    ELSE <<>>

HasSum(s) == \E i \in 1..Len(s) : SumAt(s, i) # <<>>

\* the leftmost \sum_{l}^{u} of s
FirstSum(s) == SumAt(s, CHOOSE i \in 1..Len(s) :
                            SumAt(s, i) # <<>> /\ \A j \in 1..(i - 1) : SumAt(s, j) = <<>>)

LowerLimit(s) == SubSeq(s, FirstSum(s)[1] + 6, FirstSum(s)[2] - 1)
UpperLimit(s) == SubSeq(s, FirstSum(s)[2] + 3, FirstSum(s)[3] - 1)

\* the text of the run that is the only child of e
RunText(e) == e.children[1].children[1].text

\* e is <m:nary> with the summation sign, lower limit l and upper limit u
IsNarySum(e, l, u) ==
    /\ e.tag = "m:nary"
    /\ \E k \in 1..Len(e.children) :
           /\ e.children[k].tag = "m:naryPr"
           /\ \E n \in 1..Len(e.children[k].children) :
                  /\ e.children[k].children[n].tag = "m:chr"
                  /\ e.children[k].children[n].val = <<"U+2211">>
    /\ \E k \in 1..Len(e.children) : e.children[k].tag = "m:sub" /\ RunText(e.children[k]) = l
    /\ \E k \in 1..Len(e.children) : e.children[k].tag = "m:sup" /\ RunText(e.children[k]) = u

\* C8: for an input with \sum_{l}^{u} and no \frac, parse_latex_to_omath
\* returns <m:nary> with the summation sign and the limits l and u, and
\* _build_omath_com adds an n-ary function; neither builds a sub/superscript
\* structure.
C8_SumsBuildNary ==
    /\ (/\ tx_pc = "parse_latex_to_omath"
        /\ HasSum(tx_latex)
        /\ ~HasSub(tx_latex, <<"\\", "f", "r", "a", "c">>)
        => /\ IsNarySum(omath_element, LowerLimit(tx_latex), UpperLimit(tx_latex))
           /\ omath_element.tag # "m:sSubSup")
    /\ (/\ tx_pc = "_build_omath_com"
        /\ HasSum(tx_latex)
        /\ ~HasSub(tx_latex, <<"\\", "f", "r", "a", "c">>)
        => /\ com_calls.function = "Nary"
           /\ com_calls.function # "SubSup")

\* s is \frac{n}{d} with n and d free of braces: <<end of n, end of d>>, <<>> otherwise
SimpleFraction(s) ==
    IF OccursAt(s, 1, <<"\\", "f", "r", "a", "c", "{">>) /\ GroupClose(s, 7) > 0
    THEN IF /\ OccursAt(s, GroupClose(s, 7) + 1, <<"{">>)
            /\ GroupClose(s, GroupClose(s, 7) + 2) = Len(s)
         THEN <<GroupClose(s, 7), Len(s)>>
         ELSE <<>>
    ELSE <<>>

Numerator(s) == SubSeq(s, 7, SimpleFraction(s)[1] - 1)
Denominator(s) == SubSeq(s, SimpleFraction(s)[1] + 2, Len(s) - 1)

\* C9: for \frac{n}{d} with n and d free of braces, parse_latex_structure
\* returns markup with an <m:f> element whose <m:num> and <m:den> hold the
\* converted n and d, and the markup of the fraction is not escaped text.
C9_FractionIsStructural ==
    (tx_pc = "parse_latex_structure" /\ SimpleFraction(tx_latex) # <<>>) =>
        /\ HasSub(structure_xml, <<"<", "m:f", ">">>)
        /\ HasSub(structure_xml, <<"<", "m:num", ">">>
                                 \o parse_latex_structure(Numerator(tx_latex))
                                 \o <<"<", "/m:num", ">">>)
        /\ HasSub(structure_xml, <<"<", "m:den", ">">>
                                 \o parse_latex_structure(Denominator(tx_latex))
                                 \o <<"<", "/m:den", ">">>)
        /\ ~HasSub(structure_xml, <<"&", "l", "t", ";", "m:f", "&", "g", "t", ";">>)

----------------------------------------------------------------------------
(* Properties of merge_text_and_formulas (SpecMerge) *)

\* the places <<line, index>> of the returned lines
Places(lines) == {p \in (1..Len(lines)) \X (1..(MaxMergeText + MaxMergeFormulas)) :
                    p[2] <= Len(lines[p[1]])}

\* C10: the lines merge_text_and_formulas returns are a partition of its
\* input: every text block and every formula block stands at exactly one
\* place, every place holds a block of the input, no line is empty, the
\* blocks of a line are on one page, the pages of the lines do not decrease,
\* and the two argument lists are as they were.
C10_MergePartitions ==
    mg_pc = "merged" =>
        LET lines == mg_result.lines
            given == mg_text \o mg_formulas
        IN /\ \A k \in 1..Len(given) :
                  Cardinality({p \in Places(lines) : lines[p[1]][p[2]] = given[k]}) = 1
           /\ Cardinality(Places(lines)) = Len(given)
           /\ \A i \in 1..Len(lines) : Len(lines[i]) > 0
           /\ \A i \in 1..Len(lines) : \A j \in 1..Len(lines[i]) :
                  lines[i][j].page = lines[i][1].page
           /\ \A i \in 1..Len(lines) : \A j \in 1..Len(lines) :
                  i < j => lines[i][1].page <= lines[j][1].page
           /\ mg_result.text_blocks = mg_text
           /\ mg_result.formula_blocks = mg_formulas

\* a merge of text and formula blocks given out of order returned more than
\* one line, one of them with a text block and a formula block
C10_Witness ==
    /\ mg_pc = "merged"
    /\ Len(mg_text) > 1
    /\ mg_text[1].page > mg_text[2].page
    /\ Len(mg_formulas) > 0
    /\ Len(mg_result.lines) > 1
    /\ \E i \in 1..Len(mg_result.lines) :
           \E j, k \in 1..Len(mg_result.lines[i]) :
               mg_result.lines[i][j].type = "text" /\ mg_result.lines[i][k].type = "formula"

\* C11: within every line merge_text_and_formulas returns, the blocks stand
\* left to right: bbox[0] does not decrease from one block to the next.
C11_LinesInReadingOrder ==
    mg_pc = "merged" =>
        \A i \in 1..Len(mg_result.lines) :
            \A j \in 1..(Len(mg_result.lines[i]) - 1) :
                mg_result.lines[i][j].bbox[1] <= mg_result.lines[i][j + 1].bbox[1]

----------------------------------------------------------------------------
(* Properties of create_word_document (Spec) *)

\* the places <<line, index>> (index as Python counts it) of the formula
\* blocks create_word_document inserts: the formulas with non-empty LaTeX
InsertedFormulas(lines) ==
    { p \in UNION { { <<l, i - 1>> : i \in DOMAIN lines[l] } : l \in DOMAIN lines } :
        /\ lines[p[1]][p[2] + 1].type = "formula"
        /\ Truthy(lines[p[1]][p[2] + 1].latex) }

PlaceholderAt(lines, p) == Placeholder(lines[p[1]][p[2] + 1], p[2], lines[p[1]])

WordDocumentCreated ==
    \E k \in DOMAIN stages_run : stages_run[k] = "create_word_document"

\* C12: after create_word_document, no two inserted formulas share a
\* placeholder, _formula_placeholders has exactly one entry per inserted
\* formula, and each placeholder maps to the LaTeX of its own formula.
C12_UniquePlaceholders ==
    WordDocumentCreated =>
        LET ins == InsertedFormulas(merged_content)
        IN /\ \A p, q \in ins :
                  p # q => PlaceholderAt(merged_content, p) # PlaceholderAt(merged_content, q)
           /\ Cardinality(DOMAIN formula_placeholders) = Cardinality(ins)
           /\ \A p \in ins :
                  /\ PlaceholderAt(merged_content, p) \in DOMAIN formula_placeholders
                  /\ formula_placeholders[PlaceholderAt(merged_content, p)]
                         = merged_content[p[1]][p[2] + 1].latex

----------------------------------------------------------------------------
(* Properties of ln.py main, continued (SpecMain) *)

\* the stages of main that read pdf_path
PdfStageNames == {"separate_pages", "process_with_mineru"}

\* C13: page separation and MinerU are only started with the path of a PDF
\* that was supplied or that WordToPDFConverter.convert produced; when convert
\* returned None neither is started and main exits with status 1.
C13_WordFailureExits ==
    /\ \A k \in DOMAIN events :
           events[k].name \in PdfStageNames => pdf_path \in {"supplied", "converted"}
    /\ (pdf_path = "None" /\ mpc = "exit") => exit_status = 1

\* C14: the step main takes in --html-only mode ends with status 0 exactly
\* when create_viewer was called and returned the path of the viewer it
\* wrote; a missing directory, a missing pages_info.json and a viewer that
\* was not created all end with a non-zero status.
C14_HtmlOnlyStatus ==
    [][mpc = "html_only" =>
          (exit_status' = 0 <=>
              /\ Len(events') = Len(events) + 1
              /\ events'[Len(events')].name = "create_viewer"
              /\ events'[Len(events')].ok)]_vars

----------------------------------------------------------------------------
(* Properties of the LaTeX converters, continued (SpecLatex) *)

\* C15: parse_latex_structure, with the converters it calls, returns on every
\* input string: no call runs for ever, also when the input holds '\frac{'
\* and the fraction pattern does not match.
C15_ParseTerminates ==
    tx_pc = "parse_latex_structure" => structure_xml # Diverges

----------------------------------------------------------------------------
(* Properties of convert_with_nougat (Spec) *)

NougatReturned ==
    /\ \E k \in DOMAIN stages_run : stages_run[k] = "convert_with_nougat"
    /\ raised # "convert_with_nougat"

\* C16: after convert_with_nougat returned, the latex of every formula block
\* is what nougat reads from the block's own image, or '' when that
\* conversion failed; it never comes from the results of another run.
C16_NougatReadsOwnImage ==
    NougatReturned =>
        \A i \in DOMAIN formula_blocks :
            formula_blocks[i].latex \in {OcrLatex(formula_blocks[i].image_path), ""}

----------------------------------------------------------------------------
(* Properties of merge_text_and_formulas, continued (SpecMerge) *)

\* C17: in every returned line each block's top bbox[1] is at or below the
\* top of the line's first block and less than 10 below it, and of two
\* consecutive lines of one page the later starts at least 10 below the
\* start of the earlier.
C17_ThresholdGrouping ==
    mg_pc = "merged" =>
        LET lines == mg_result.lines
        IN /\ \A i \in DOMAIN lines : \A j \in DOMAIN lines[i] :
                  /\ lines[i][j].bbox[2] >= lines[i][1].bbox[2]
                  /\ lines[i][j].bbox[2] < lines[i][1].bbox[2] + 10
           /\ \A i \in 1..(Len(lines) - 1) :
                  lines[i][1].page = lines[i + 1][1].page =>
                      lines[i + 1][1].bbox[2] >= lines[i][1].bbox[2] + 10

\* three blocks of one page with tops 0, 5 and 10, given with the lowest
\* first: the block 5 below joins the first line, the block exactly 10 below
\* starts the next line
C17_Witness ==
    /\ mg_pc = "merged"
    /\ Len(mg_result.lines) = 2
    /\ Len(mg_result.lines[1]) = 2
    /\ mg_result.lines[1][1].page = mg_result.lines[2][1].page
    /\ mg_result.lines[1][1].bbox[2] = 0
    /\ mg_result.lines[1][2].bbox[2] = 5
    /\ mg_result.lines[2][1].bbox[2] = 10
    /\ mg_text[1].bbox[2] = 10

----------------------------------------------------------------------------
(* Properties of PipelineTimer (SpecTimer) *)

\* the stage names given to start_stage so far
StartedStages ==
    { timer_calls[i].stage_name : i \in { k \in DOMAIN timer_calls :
                                            timer_calls[k].op = "start_stage" } }

\* stage_name was started and a later call ended it
StartedThenEnded(stage_name) ==
    \E i, j \in DOMAIN timer_calls :
        /\ i < j
        /\ timer_calls[i] = Call("start_stage", stage_name)
        /\ timer_calls[j].op \in {"start_stage", "end_stage", "end_total"}

LastCall == timer_calls[Len(timer_calls)]

\* C18: after any sequence of calls at most one stage is active (every
\* started stage but the current one has been recorded), current_stage is
\* None exactly when current_start_time is None, and stages holds only names
\* of stages that were started and then ended; a start_stage call made while
\* a stage is active records that stage in stages; an end_stage call made
\* with no active stage changes nothing.
C18_TimerBookkeeping ==
    /\ [](/\ StartedStages \subseteq DOMAIN timer.stages \cup {timer.current_stage}
          /\ (timer.current_stage = "None" <=> timer.current_start_time = "None")
          /\ \A n \in DOMAIN timer.stages : StartedThenEnded(n))
    /\ [][/\ (timer_calls' # timer_calls /\ LastCall'.op = "start_stage"
                 /\ timer.current_stage # "None")
             => timer.current_stage \in DOMAIN timer'.stages
          /\ (timer_calls' # timer_calls /\ LastCall'.op = "end_stage"
                 /\ timer.current_stage = "None")
             => timer' = timer]_vars

\* a second stage was started while the first was active, and end_stage was
\* called twice behind it: both stages are recorded and none is active
C18_Witness ==
    /\ Len(timer_calls) = 5
    /\ timer_calls[2].op = "start_stage"
    /\ timer_calls[3].op = "start_stage"
    /\ timer_calls[3].stage_name # timer_calls[2].stage_name
    /\ timer_calls[4].op = "end_stage"
    /\ timer_calls[5].op = "end_stage"
    /\ DOMAIN timer.stages = StageNames
    /\ timer.current_stage = "None"

----------------------------------------------------------------------------
(* Properties of process_with_mineru (SpecMain) *)

\* process_with_mineru was called and its try block was entered
PwmLeft == pwm.ret # "unset" /\ ~pwm.env.pre_raise

EndTotalCalls ==
    Cardinality({k \in DOMAIN timer_calls : timer_calls[k].op = "end_total"})

\* C19: however process_with_mineru leaves, its timer has no active stage
\* and end_total has been called on it exactly once.
C19_TimerClosedOnEveryExit ==
    PwmLeft => (timer.current_stage = "None" /\ EndTotalCalls = 1)

\* C20: process_with_mineru returns the result directory only when magic-pdf
\* exited with code 0, an '*auto' directory exists and a content list with at
\* least one item was loaded from it; nougat enhancement is called from it
\* only after exit code 0.
C20_DirectoryOnlyAfterSuccess ==
    /\ pwm.ret = "dir" =>
          /\ pwm.env.returncode = 0
          /\ pwm.env.auto_exists
          /\ pwm.env.json # "none"
          /\ pwm.env.content = "items"
    /\ pwm.nougat_called => pwm.env.returncode = 0

====
